---- MODULE Spec2Model ----
(***************************************************************************)
(* A model of the credential-encryption and test-data utility layer:       *)
(*   - TestDataManager (utils/testDataManager.js): the in-memory registry  *)
(*     of generated entities, the cleanup hooks and the cleanup cycle;     *)
(*   - PasswordEncryption (scripts/encryptPassword.js): the cipher, the    *)
(*     JSON transport and the signed expiring tokens;                      *)
(*   - PasswordEncryptionHelper (utils/passwordEncryption.js): the walk    *)
(*     over sensitive fields.                                              *)
(* Spec is the manager's state machine.  The other specifications apply    *)
(* the pure transforms of the cipher to inputs drawn from bounded sets.    *)
(***************************************************************************)
EXTENDS Integers, Sequences, FiniteSets, TLC

VARIABLES
    cleanupStrategy,  \* TestDataManager.cleanupStrategy (constructor option)
    generatedData,    \* TestDataManager.generatedData: Map type -> array
    cleanupHooks,     \* TestDataManager.cleanupHooks: array of hooks
    nextId,           \* identity of the next object a generator creates
    pc,               \* where the cleanup() call in flight is suspended
    plan,             \* sub-cleanups the call in flight has still to run
    hookIdx,          \* position of the for-of iterator in executeCleanupHooks
    pending,          \* how the promise being awaited settles
    log,              \* (history) what the current cleanup cycle has invoked
    cleaned,          \* (history) a cleanup() call has settled and nothing was
                      \* generated since
    ret,              \* the last value a generator or a query returned
    secretKey,        \* PasswordEncryption.secretKey: 64 hex characters
    input,            \* the operation last applied to a plain value, and the value
    blob,             \* what that operation returned
    output,           \* what the inverse operation returned for it
    clock,            \* Date.now()
    token,            \* the token at hand
    issued,           \* (history) how the token at hand came about
    verdict           \* what verifySecureToken returned for it at this instant

mvars == <<cleanupStrategy, generatedData, cleanupHooks, nextId, pc, plan,
           hookIdx, pending, log, cleaned, ret>>

\* the cipher and its transports
cvars == <<secretKey, input, blob, output>>

\* the tokens
tvars == <<clock, token, issued, verdict>>

vars == <<mvars, cvars, tvars>>

----------------------------------------------------------------------------
(* Bounds of the manager model. *)

\* objects generateUser may create in one behaviour of Spec
MaxEntities == 2

\* objects the generators may create in one behaviour of SpecRegistry
MaxRegistryEntities == 4

\* hooks that may be registered in one behaviour
MaxHooks == 2

\* largest count passed to generateUsers
MaxBatch == 2

----------------------------------------------------------------------------
(* Bounds of the cipher model. *)

\* IVs are drawn from IvOf(0) .. IvOf(MaxIvSeed)
MaxIvSeed == 1

\* plain strings have at most this many code units
MaxStrLen == 2

\* arrays have at most this many elements, objects this many keys
MaxWidth == 2

\* Date.now() advances by at most this much between the two reads of
\* createSecureToken
MaxSkew == 1

----------------------------------------------------------------------------
(* TestDataManager: data *)

Types == {"user", "product", "order", "api"}

\* the strategies cleanup() knows, and a value it does not know
Strategies == {"auto", "database", "api", "file", "all"}

StrategyArgs == Strategies \cup {"unknown"}

\* the substrings generateDataForEndpoint looks for; an endpoint is modelled by
\* the set of those it contains
EndpointMarkers == {"/users", "/products", "/orders"}

Endpoints == SUBSET EndpointMarkers

\* how a registered hook behaves when invoked: it resolves, it throws or rejects
\* with a value that has a message (an Error, a string, ...), or it throws or
\* rejects with null or undefined
HookOutcomes == {"resolve", "reject", "rejectNullish"}

\* new Map()
EmptyMap == [t \in {} |-> <<>>]

\* an object a generator creates; data is the identity of the object nested in
\* an api entity (0: none registered)
Entity(id, type, data) == [id |-> id, type |-> type, data |-> data]

NoRet == [op |-> "none", value |-> 0]

----------------------------------------------------------------------------
(* TestDataManager: registry *)

\* a storeGeneratedData that puts the new entity first (unshift for push)
StoreGeneratedData_Unshift(reg, type, data) ==
    IF type \in DOMAIN reg
    THEN [reg EXCEPT ![type] = <<data>> \o @]
    ELSE [t \in DOMAIN reg \cup {type} |-> IF t = type THEN <<data>> ELSE reg[t]]

\* storeGeneratedData(type, data)
StoreGeneratedData(reg, type, data) ==
    LET withKey == IF type \in DOMAIN reg
                   THEN reg
                   ELSE [t \in DOMAIN reg \cup {type} |->
                            IF t = type THEN <<>> ELSE reg[t]]
    IN  [withKey EXCEPT ![type] = Append(@, data)]

\* getGeneratedData(type)
GetGeneratedData(reg, type) ==
    IF type \in DOMAIN reg THEN reg[type] ELSE <<>>

\* a clearGeneratedData that forgets to clear when no type is given
ClearGeneratedData_Keep(reg, type) ==
    IF type # "null"
    THEN [t \in DOMAIN reg \ {type} |-> reg[t]]
    ELSE reg

\* clearGeneratedData(type = null)
ClearGeneratedData(reg, type) ==
    IF type # "null"
    THEN [t \in DOMAIN reg \ {type} |-> reg[t]]
    ELSE EmptyMap

RECURSIVE StatsOver(_, _, _)
\* the for-of loop of getDataStatistics over the entries still to visit
StatsOver(reg, todo, stats) ==
    IF todo = {}
    THEN stats
    ELSE LET type == CHOOSE t \in todo : TRUE
             byType == [t \in DOMAIN stats.byType \cup {type} |->
                           IF t = type THEN Len(reg[type]) ELSE stats.byType[t]]
         IN  StatsOver(reg, todo \ {type},
                       [totalGenerated |-> stats.totalGenerated + Len(reg[type]),
                        byType |-> byType])

\* a getDataStatistics that counts entries (types) instead of entities
GetDataStatistics_CountTypes(reg) ==
    [totalGenerated |-> Cardinality(DOMAIN reg),
     byType |-> [t \in DOMAIN reg |-> Len(reg[t])]]

\* getDataStatistics()
GetDataStatistics(reg) ==
    StatsOver(reg, DOMAIN reg, [totalGenerated |-> 0, byType |-> EmptyMap])

----------------------------------------------------------------------------
(* TestDataManager: generators.  Each returns the registry after the call, *)
(* the entity returned and the number of objects it created.               *)

\* generateUser(options)
GenerateUser(reg, id) ==
    LET user == Entity(id, "user", 0)
    IN  [reg |-> StoreGeneratedData(reg, "user", user), value |-> user, used |-> 1]

\* generateProduct(options)
GenerateProduct(reg, id) ==
    LET product == Entity(id, "product", 0)
    IN  [reg |-> StoreGeneratedData(reg, "product", product), value |-> product,
         used |-> 1]

\* generateOrder(options)
GenerateOrder(reg, id) ==
    LET order == Entity(id, "order", 0)
    IN  [reg |-> StoreGeneratedData(reg, "order", order), value |-> order, used |-> 1]

\* a generateDataForEndpoint that builds its object without a generator
GenerateDataForEndpoint_Unregistered(reg, id, endpoint) ==
    [reg |-> reg, value |-> Entity(id, "generic", 0), used |-> 1]

\* generateDataForEndpoint(endpoint): the first marker the endpoint includes
\* decides; the generic object of the else branch is not registered
GenerateDataForEndpoint(reg, id, endpoint) ==
    IF "/users" \in endpoint THEN GenerateUser(reg, id)
    ELSE IF "/products" \in endpoint THEN GenerateProduct(reg, id)
    ELSE IF "/orders" \in endpoint THEN GenerateOrder(reg, id)
    ELSE [reg |-> reg, value |-> Entity(id, "generic", 0), used |-> 1]

\* generateApiData(endpoint, options)
GenerateApiData(reg, id, endpoint) ==
    LET inner == GenerateDataForEndpoint(reg, id, endpoint)
        apiData == Entity(id + inner.used, "api", inner.value.id)
    IN  [reg |-> StoreGeneratedData(inner.reg, "api", apiData), value |-> apiData,
         used |-> inner.used + 1]

RECURSIVE GenerateUsers(_, _, _)
\* generateUsers(count, options): the loop, returning the array of users
GenerateUsers(reg, id, count) ==
    IF count = 0
    THEN [reg |-> reg, value |-> <<>>, used |-> 0]
    ELSE LET one == GenerateUser(reg, id)
             rest == GenerateUsers(one.reg, id + 1, count - 1)
         IN  [reg |-> rest.reg, value |-> <<one.value>> \o rest.value,
              used |-> rest.used + 1]

----------------------------------------------------------------------------
(* TestDataManager: the cleanup cycle *)

\* the sub-cleanups of 'all' in another order
SubPlan_FilesFirst(strategy) ==
    CASE strategy = "database" -> <<"database">>
      [] strategy = "api" -> <<"api">>
      [] strategy = "file" -> <<"file">>
      [] strategy = "all" -> <<"file", "api", "database">>
      [] OTHER -> <<>>

\* the switch of cleanup(): the sub-cleanups of a resolved strategy, in order
SubPlan(strategy) ==
    CASE strategy = "database" -> <<"database">>
      [] strategy = "api" -> <<"api">>
      [] strategy = "file" -> <<"file">>
      [] strategy = "all" -> <<"database", "api", "file">>
      [] OTHER -> <<>>

\* the first line of cleanup(): 'auto' stands for the configured strategy
ResolveStrategy(strategy, configured) ==
    IF strategy = "auto" THEN configured ELSE strategy

\* how a sub-cleanup may settle: cleanupDatabase and cleanupApi only log;
\* cleanupFiles reads and unlinks the entries of the temp directory, and an fs
\* call that throws rejects its promise
SubOutcomes(name) ==
    IF name = "file" THEN {"resolve", "reject"} ELSE {"resolve"}

\* the catch block of executeCleanupHooks reads error.message: the loop goes on
\* unless the value caught is null or undefined, which makes the catch throw
HookLoopContinues(outcome) == outcome # "rejectNullish"

Busy == pc \in {"awaitSub", "awaitHook", "awaitHooksDone"}

\* the log entry of an invoked sub-cleanup or hook
SubEvent(name) == [kind |-> "sub", name |-> name, idx |-> 0]

HookEvent(i) == [kind |-> "hook", name |-> "hook", idx |-> i]

\* the log entry of the entry into cleanup(): the identity the next generated
\* entity will get and the length of the hook list, both at that moment
StartEvent(id, hooks) == [kind |-> "start", name |-> "cleanup", idx |-> id, hooks |-> hooks]

\* executeCleanupHooks from position i of its iterator: invoke the hook there
\* and await it, or leave the loop and let cleanup() await the result
EnterHookLoop(i, sofar) ==
    IF i <= Len(cleanupHooks)
    THEN /\ pc' = "awaitHook"
         /\ hookIdx' = i
         /\ pending' = cleanupHooks[i]
         /\ log' = Append(sofar, HookEvent(i))
    ELSE /\ pc' = "awaitHooksDone"
         /\ hookIdx' = i
         /\ pending' = "resolve"
         /\ log' = sofar

\* cleanup() from the sub-cleanups todo: run the next one and await it, or go
\* on to the hooks
EnterSubs(todo, sofar) ==
    IF todo # <<>>
    THEN /\ pc' = "awaitSub"
         /\ plan' = Tail(todo)
         /\ \E o \in SubOutcomes(Head(todo)) : pending' = o
         /\ log' = Append(sofar, SubEvent(Head(todo)))
         /\ UNCHANGED hookIdx
    ELSE /\ plan' = <<>>
         /\ EnterHookLoop(1, sofar)

----------------------------------------------------------------------------
(* Strings, bytes and encodings.  A string is the sequence of its UTF-16    *)
(* code units, a buffer the sequence of its bytes.                          *)

\* the code units the cipher's formats are written with
Chr == [colon |-> 58, dot |-> 46, quote |-> 34, backslash |-> 92, comma |-> 44,
        minus |-> 45, zero |-> 48, lbracket |-> 91, rbracket |-> 93,
        lbrace |-> 123, rbrace |-> 125, equals |-> 61, plus |-> 43, slash |-> 47,
        replacement |-> 65533]

IsHighSurrogate(u) == u >= 55296 /\ u <= 56319

IsLowSurrogate(u) == u >= 56320 /\ u <= 57343

\* no surrogate code unit of the string stands without its partner
WellFormed(s) ==
    \A i \in 1..Len(s) :
        /\ IsHighSurrogate(s[i]) => (i < Len(s) /\ IsLowSurrogate(s[i + 1]))
        /\ IsLowSurrogate(s[i]) => (i > 1 /\ IsHighSurrogate(s[i - 1]))

\* the code units of the words the program and its tests spell out
Word == [
    password |-> <<112, 97, 115, 115, 119, 111, 114, 100>>,
    apiKey |-> <<97, 112, 105, 75, 101, 121>>,
    token |-> <<116, 111, 107, 101, 110>>,
    secret |-> <<115, 101, 99, 114, 101, 116>>,
    key |-> <<107, 101, 121>>,
    username |-> <<117, 115, 101, 114, 110, 97, 109, 101>>,
    users |-> <<117, 115, 101, 114, 115>>,
    proto |-> <<95, 95, 112, 114, 111, 116, 111, 95, 95>>,
    data |-> <<100, 97, 116, 97>>,
    timestamp |-> <<116, 105, 109, 101, 115, 116, 97, 109, 112>>,
    expiry |-> <<101, 120, 112, 105, 114, 121>>,
    testPassword |-> <<84, 101, 115, 116, 80, 97, 115, 115, 119, 111, 114, 100, 49, 50, 51, 33>>,
    defaultKey |-> <<121, 111, 117, 114, 45, 51, 50, 45, 99, 104, 97, 114, 97, 99, 116, 101, 114, 45, 115, 101, 99, 114, 101, 116, 45, 107, 101, 121, 45, 104, 101, 114, 101>>,
    otherKey |-> <<116, 101, 115, 116, 45, 101, 110, 99, 114, 121, 112, 116, 105, 111, 110, 45, 107, 101, 121, 45, 51, 50, 45, 99, 104, 97, 114, 115, 45, 108, 111, 110, 103>>,
    invalidToken |-> <<105, 110, 118, 97, 108, 105, 100, 46, 116, 111, 107, 101, 110>>,
    mixedCase |-> <<80, 97, 115, 115, 119, 111, 114, 100>>]

IsContinuation(b) == b >= 128 /\ b <= 191

\* F(v), with v evaluated once
With(v, F(_)) == CHOOSE r \in {F(x) : x \in {v}} : TRUE

RECURSIVE FlattenRange(_, _, _)
\* the concatenation of the sequences ss[lo] .. ss[hi]
FlattenRange(ss, lo, hi) ==
    IF lo > hi THEN <<>>
    ELSE IF lo = hi THEN ss[lo]
    ELSE LET mid == (lo + hi) \div 2
         IN  FlattenRange(ss, lo, mid) \o FlattenRange(ss, mid + 1, hi)

Flatten(ss) == FlattenRange(ss, 1, Len(ss))

\* the bytes written for the code unit at position i of s: a surrogate pair
\* becomes one 4-byte sequence, written at its first unit; a surrogate that
\* stands alone becomes U+FFFD
Utf8EncodeAt(s, i) ==
    LET u == s[i] IN
    IF u < 128 THEN <<u>>
    ELSE IF u < 2048 THEN <<192 + (u \div 64), 128 + (u % 64)>>
    ELSE IF IsHighSurrogate(u) /\ i < Len(s) /\ IsLowSurrogate(s[i + 1])
    THEN LET cp == 65536 + (u - 55296) * 1024 + (s[i + 1] - 56320)
         IN  <<240 + (cp \div 262144), 128 + ((cp \div 4096) % 64),
               128 + ((cp \div 64) % 64), 128 + (cp % 64)>>
    ELSE IF IsLowSurrogate(u) /\ i > 1 /\ IsHighSurrogate(s[i - 1])
    THEN <<>>
    ELSE IF IsHighSurrogate(u) \/ IsLowSurrogate(u)
    THEN <<239, 191, 189>>
    ELSE <<224 + (u \div 4096), 128 + ((u \div 64) % 64), 128 + (u % 64)>>

\* the bytes Node writes for a string under the 'utf8' encoding
Utf8Encode(s) == Flatten([i \in 1..Len(s) |-> Utf8EncodeAt(s, i)])

\* the code units of the valid sequence that starts at position i of b, none
\* where no valid sequence starts
Utf8SequenceAt(b, i) ==
    LET b1 == b[i]
        n == Len(b) - i + 1
        cp2 == (b1 - 192) * 64 + (b[i + 1] - 128)
        cp3 == (b1 - 224) * 4096 + (b[i + 1] - 128) * 64 + (b[i + 2] - 128)
        cp4 == (b1 - 240) * 262144 + (b[i + 1] - 128) * 4096
                 + (b[i + 2] - 128) * 64 + (b[i + 3] - 128)
    IN  IF b1 < 128 THEN [len |-> 1, units |-> <<b1>>]
        ELSE IF b1 >= 194 /\ b1 <= 223 /\ n >= 2 /\ IsContinuation(b[i + 1])
        THEN [len |-> 2, units |-> <<cp2>>]
        ELSE IF /\ b1 >= 224 /\ b1 <= 239 /\ n >= 3
                /\ IsContinuation(b[i + 1]) /\ IsContinuation(b[i + 2])
                /\ cp3 >= 2048 /\ ~IsHighSurrogate(cp3) /\ ~IsLowSurrogate(cp3)
        THEN [len |-> 3, units |-> <<cp3>>]
        ELSE IF /\ b1 >= 240 /\ b1 <= 244 /\ n >= 4
                /\ IsContinuation(b[i + 1]) /\ IsContinuation(b[i + 2])
                /\ IsContinuation(b[i + 3])
                /\ cp4 >= 65536 /\ cp4 <= 1114111
        THEN [len |-> 4,
              units |-> <<55296 + ((cp4 - 65536) \div 1024),
                          56320 + ((cp4 - 65536) % 1024)>>]
        ELSE [len |-> 0, units |-> <<>>]

\* a decoder that reads every byte as one code unit ('latin1' for 'utf8')
Utf8Decode_Latin1(b) == b

\* the string Node reads from bytes under the 'utf8' encoding; a byte that
\* belongs to no valid sequence is read as U+FFFD
Utf8Decode(bytes) ==
    With(bytes, LAMBDA b :
      With([i \in 1..Len(b) |-> Utf8SequenceAt(b, i)], LAMBDA seqs :
        Flatten([i \in 1..Len(b) |->
            IF seqs[i].len > 0 THEN seqs[i].units
            ELSE IF \E j \in 1..(i - 1) : j >= i - 3 /\ seqs[j].len > i - j
            THEN <<>>
            ELSE <<Chr.replacement>>])))

\* the lowercase hex digit of a value below 16
HexDigit(n) == IF n < 10 THEN 48 + n ELSE 87 + n

\* the value of a hex digit of either case, -1 for any other code unit
HexValue(u) ==
    IF u >= 48 /\ u <= 57 THEN u - 48
    ELSE IF u >= 97 /\ u <= 102 THEN u - 87
    ELSE IF u >= 65 /\ u <= 70 THEN u - 55
    ELSE -1

IsHexString(s) == \A i \in 1..Len(s) : HexValue(s[i]) >= 0

\* buf.toString('hex')
HexEncode(b) ==
    [i \in 1..(2 * Len(b)) |->
        IF i % 2 = 1 THEN HexDigit(b[(i + 1) \div 2] \div 16)
        ELSE HexDigit(b[i \div 2] % 16)]

\* Buffer.from(s, 'hex'): pairs of hex digits, up to the first pair that is not
HexDecode(s) ==
    LET bad == {k \in 1..(Len(s) \div 2) :
                  HexValue(s[2 * k - 1]) < 0 \/ HexValue(s[2 * k]) < 0}
        n == IF bad = {} THEN Len(s) \div 2
             ELSE (CHOOSE k \in bad : \A j \in bad : k <= j) - 1
    IN  [k \in 1..n |-> HexValue(s[2 * k - 1]) * 16 + HexValue(s[2 * k])]

\* s.split(sep): the parts of s between the occurrences of the code unit sep
Split(s, sep) ==
    LET seps == {i \in 1..Len(s) : s[i] = sep}
        n == Cardinality(seps)
        nth(k) == IF k = 0 THEN 0
                  ELSE IF k = n + 1 THEN Len(s) + 1
                  ELSE CHOOSE i \in seps : Cardinality({j \in seps : j < i}) = k - 1
    IN  [k \in 1..(n + 1) |-> SubSeq(s, nth(k - 1) + 1, nth(k) - 1)]

----------------------------------------------------------------------------
(* JSON values and their text.  A value is tagged with its type: null,     *)
(* bool, num (an integer), str (the code units), arr (the sequence of the  *)
(* elements) and obj (the function from the own keys to their values).     *)

JNull == [t |-> "null", v |-> 0]

JBool(b) == [t |-> "bool", v |-> b]

JNum(n) == [t |-> "num", v |-> n]

JStr(s) == [t |-> "str", v |-> s]

JArr(elements) == [t |-> "arr", v |-> elements]

JObj(members) == [t |-> "obj", v |-> members]

\* {}
EmptyObject == [k \in {} |-> JNull]

\* the texts of the literals
Lit == [null |-> <<110, 117, 108, 108>>, true |-> <<116, 114, 117, 101>>, false |-> <<102, 97, 108, 115, 101>>]

RECURSIVE DeepEqual(_, _)
\* deep equality of two values: the same type, and the same elements or the
\* same own keys with deeply equal values
DeepEqual(x, y) ==
    /\ x.t = y.t
    /\ CASE x.t = "arr" ->
              /\ Len(x.v) = Len(y.v)
              /\ \A i \in 1..Len(x.v) : DeepEqual(x.v[i], y.v[i])
         [] x.t = "obj" ->
              /\ DOMAIN x.v = DOMAIN y.v
              /\ \A k \in DOMAIN x.v : DeepEqual(x.v[k], y.v[k])
         [] OTHER -> x.v = y.v

RECURSIVE IntToDec(_)
\* the decimal text of an integer
IntToDec(n) ==
    IF n < 0 THEN <<Chr.minus>> \o IntToDec(0 - n)
    ELSE IF n < 10 THEN <<Chr.zero + n>>
    ELSE IntToDec(n \div 10) \o <<Chr.zero + (n % 10)>>

\* \uXXXX
UnicodeEscape(u) ==
    <<Chr.backslash, 117, HexDigit(u \div 4096), HexDigit((u \div 256) % 16),
      HexDigit((u \div 16) % 16), HexDigit(u % 16)>>

\* the escaped text of the code unit at position i of s: the quote, the
\* backslash and the control characters are escaped, and so is a surrogate
\* that stands alone (well-formed JSON.stringify)
QuoteUnit(s, i) ==
    LET u == s[i]
        paired == \/ /\ IsHighSurrogate(u) /\ i < Len(s)
                     /\ IsLowSurrogate(s[i + 1])
                  \/ /\ IsLowSurrogate(u) /\ i > 1
                     /\ IsHighSurrogate(s[i - 1])
    IN  CASE u = Chr.quote -> <<Chr.backslash, Chr.quote>>
          [] u = Chr.backslash -> <<Chr.backslash, Chr.backslash>>
          [] u = 8 -> <<Chr.backslash, 98>>
          [] u = 9 -> <<Chr.backslash, 116>>
          [] u = 10 -> <<Chr.backslash, 110>>
          [] u = 12 -> <<Chr.backslash, 102>>
          [] u = 13 -> <<Chr.backslash, 114>>
          [] u < 32 -> UnicodeEscape(u)
          [] (IsHighSurrogate(u) \/ IsLowSurrogate(u)) /\ ~paired ->
               UnicodeEscape(u)
          [] OTHER -> <<u>>

\* the JSON text of a string
JsonQuote(s) ==
    <<Chr.quote>> \o Flatten([i \in 1..Len(s) |-> QuoteUnit(s, i)]) \o <<Chr.quote>>

RECURSIVE JsonStringify(_)
RECURSIVE StringifyElements(_, _)
RECURSIVE StringifyMembers(_, _, _)

StringifyElements(elements, i) ==
    IF i > Len(elements) THEN <<>>
    ELSE (IF i > 1 THEN <<Chr.comma>> ELSE <<>>)
         \o JsonStringify(elements[i]) \o StringifyElements(elements, i + 1)

StringifyMembers(members, todo, first) ==
    IF todo = {} THEN <<>>
    ELSE With(CHOOSE key \in todo : TRUE, LAMBDA k :
           (IF first THEN <<>> ELSE <<Chr.comma>>)
           \o JsonQuote(k) \o <<Chr.colon>> \o JsonStringify(members[k])
           \o StringifyMembers(members, todo \ {k}, FALSE))

\* JSON.stringify(value) of a JSON value; the members of an object are written
\* in one fixed order of its keys
JsonStringify(value) ==
    CASE value.t = "null" -> Lit.null
      [] value.t = "bool" -> (IF value.v THEN Lit.true ELSE Lit.false)
      [] value.t = "num" -> IntToDec(value.v)
      [] value.t = "str" -> JsonQuote(value.v)
      [] value.t = "arr" ->
           <<Chr.lbracket>> \o StringifyElements(value.v, 1) \o <<Chr.rbracket>>
      [] value.t = "obj" ->
           <<Chr.lbrace>> \o StringifyMembers(value.v, DOMAIN value.v, TRUE)
           \o <<Chr.rbrace>>

\* the parser's results: a value and the position behind it, or a SyntaxError
Parsed(v, i) == [ok |-> TRUE, v |-> v, i |-> i]

SyntaxError == [ok |-> FALSE, v |-> JNull, i |-> 0]

At(text, i) == IF i >= 1 /\ i <= Len(text) THEN text[i] ELSE -1

Matches(text, i, word) ==
    /\ i + Len(word) - 1 <= Len(text)
    /\ SubSeq(text, i, i + Len(word) - 1) = word

IsDigit(u) == u >= 48 /\ u <= 57

RECURSIVE ParseDigits(_, _, _)
ParseDigits(text, i, n) ==
    IF IsDigit(At(text, i))
    THEN ParseDigits(text, i + 1, 10 * n + (text[i] - 48))
    ELSE Parsed(n, i)

\* an integer: an optional minus, then 0 or a digit from 1 to 9 and more digits
ParseNumber(text, i) ==
    LET neg == At(text, i) = Chr.minus
        j == IF neg THEN i + 1 ELSE i
    IN  IF ~IsDigit(At(text, j)) THEN SyntaxError
        ELSE IF At(text, j) = Chr.zero
        THEN (IF IsDigit(At(text, j + 1)) THEN SyntaxError ELSE Parsed(JNum(0), j + 1))
        ELSE With(ParseDigits(text, j, 0), LAMBDA d :
                 Parsed(JNum(IF neg THEN 0 - d.v ELSE d.v), d.i))

\* the number of backslashes that stand in a row before position p, from
\* position i on
BackslashRun(text, i, p) ==
    IF p <= i \/ text[p - 1] # Chr.backslash THEN 0
    ELSE LET others == {q \in i..(p - 1) : text[q] # Chr.backslash}
             last == IF others = {} THEN i - 1
                     ELSE CHOOSE q \in others : \A r \in others : r <= q
         IN  p - 1 - last

\* the code unit at position p of a string that opens before position i
\* starts an escape, is the second character of one, is a hex digit of one
EscapeStart(text, i, p) ==
    text[p] = Chr.backslash /\ BackslashRun(text, i, p) % 2 = 0

Escaped(text, i, p) == BackslashRun(text, i, p) % 2 = 1

EscapeDigit(text, i, p) ==
    \E q \in i..(p - 2) :
        q >= p - 5 /\ EscapeStart(text, i, q) /\ text[q + 1] = 117

\* the code units that the text at position p of a string stands for; ok is
\* FALSE for a control character and for an escape that JSON does not know
UnitAt(text, i, p) ==
    LET u == text[p]
        e == At(text, p + 1)
        h == [k \in 1..4 |-> HexValue(At(text, p + 1 + k))]
    IN  IF u < 32 THEN [ok |-> FALSE, units |-> <<>>]
        ELSE IF Escaped(text, i, p) \/ EscapeDigit(text, i, p)
        THEN [ok |-> TRUE, units |-> <<>>]
        ELSE IF ~EscapeStart(text, i, p) THEN [ok |-> TRUE, units |-> <<u>>]
        ELSE CASE e = Chr.quote \/ e = Chr.backslash \/ e = Chr.slash ->
                    [ok |-> TRUE, units |-> <<e>>]
               [] e = 98 -> [ok |-> TRUE, units |-> <<8>>]
               [] e = 116 -> [ok |-> TRUE, units |-> <<9>>]
               [] e = 110 -> [ok |-> TRUE, units |-> <<10>>]
               [] e = 102 -> [ok |-> TRUE, units |-> <<12>>]
               [] e = 114 -> [ok |-> TRUE, units |-> <<13>>]
               [] e = 117 /\ \A k \in 1..4 : h[k] >= 0 ->
                    [ok |-> TRUE,
                     units |-> <<h[1] * 4096 + h[2] * 256 + h[3] * 16 + h[4]>>]
               [] OTHER -> [ok |-> FALSE, units |-> <<>>]

\* the position of the first quote from position i on that no backslash
\* escapes, 0 where there is none
ClosingQuote(text, i) ==
    With({p \in i..Len(text) : text[p] = Chr.quote /\ ~Escaped(text, i, p)},
         LAMBDA quotes :
            IF quotes = {} THEN 0
            ELSE CHOOSE p \in quotes : \A q \in quotes : p <= q)

\* the code units of a string, from behind its opening quote at position i to
\* its closing quote
ParseUnits(text, i) ==
    With(ClosingQuote(text, i), LAMBDA close :
      IF close = 0 THEN SyntaxError
      ELSE With([p \in 1..(close - i) |-> UnitAt(text, i, i + p - 1)], LAMBDA units :
             IF \E p \in 1..(close - i) : ~units[p].ok THEN SyntaxError
             ELSE Parsed(Flatten([p \in 1..(close - i) |-> units[p].units]),
                         close + 1)))

RECURSIVE ParseValue(_, _)
RECURSIVE ParseElements(_, _, _)
RECURSIVE ParseMembers(_, _, _)

\* the elements of an array from position i on, behind those already read
ParseElements(text, i, elements) ==
    With(ParseValue(text, i), LAMBDA e :
      IF ~e.ok THEN SyntaxError
      ELSE IF At(text, e.i) = Chr.comma
      THEN ParseElements(text, e.i + 1, Append(elements, e.v))
      ELSE IF At(text, e.i) = Chr.rbracket
      THEN Parsed(JArr(Append(elements, e.v)), e.i + 1)
      ELSE SyntaxError)

\* members[key] = value
PutMember(members, key, value) ==
    [k \in DOMAIN members \cup {key} |-> IF k = key THEN value ELSE members[k]]

\* the members of an object from position i on; a key read again replaces
\* the value read before
ParseMembers(text, i, members) ==
    IF At(text, i) # Chr.quote THEN SyntaxError
    ELSE With(ParseUnits(text, i + 1), LAMBDA key :
      IF ~key.ok \/ At(text, key.i) # Chr.colon THEN SyntaxError
      ELSE With(ParseValue(text, key.i + 1), LAMBDA val :
        IF ~val.ok THEN SyntaxError
        ELSE IF At(text, val.i) = Chr.comma
        THEN ParseMembers(text, val.i + 1, PutMember(members, key.v, val.v))
        ELSE IF At(text, val.i) = Chr.rbrace
        THEN Parsed(JObj(PutMember(members, key.v, val.v)), val.i + 1)
        ELSE SyntaxError))

ParseValue(text, i) ==
    LET u == At(text, i) IN
    CASE Matches(text, i, Lit.null) -> Parsed(JNull, i + 4)
      [] Matches(text, i, Lit.true) -> Parsed(JBool(TRUE), i + 4)
      [] Matches(text, i, Lit.false) -> Parsed(JBool(FALSE), i + 5)
      [] u = Chr.quote ->
           With(ParseUnits(text, i + 1), LAMBDA str :
                IF str.ok THEN Parsed(JStr(str.v), str.i) ELSE SyntaxError)
      [] u = Chr.lbracket ->
           IF At(text, i + 1) = Chr.rbracket
           THEN Parsed(JArr(<<>>), i + 2)
           ELSE ParseElements(text, i + 1, <<>>)
      [] u = Chr.lbrace ->
           IF At(text, i + 1) = Chr.rbrace
           THEN Parsed(JObj(EmptyObject), i + 2)
           ELSE ParseMembers(text, i + 1, EmptyObject)
      [] u = Chr.minus \/ IsDigit(u) -> ParseNumber(text, i)
      [] OTHER -> SyntaxError

\* JSON.parse(text) of a text without insignificant white space: the value,
\* or ok FALSE for the SyntaxError
JsonParse(text) ==
    With(text, LAMBDA t :
      With(ParseValue(t, 1), LAMBDA r :
        IF r.ok /\ r.i = Len(t) + 1
        THEN [ok |-> TRUE, value |-> r.v]
        ELSE [ok |-> FALSE, value |-> JNull]))

----------------------------------------------------------------------------
(* The primitives of Node's crypto module, abstracted: a 32-byte digest    *)
(* that changes whenever one byte of the message changes, and a keyed      *)
(* permutation of 16-byte blocks run in CBC mode with PKCS#7 padding.      *)

RECURSIVE BitXor(_, _)
BitXor(a, b) ==
    IF a = 0 /\ b = 0 THEN 0
    ELSE (((a % 2) + (b % 2)) % 2) + 2 * BitXor(a \div 2, b \div 2)

RECURSIVE SumAt(_, _, _)
\* the sum of the bytes of m at the positions i, i + 32, i + 64, ...
SumAt(m, i, acc) ==
    IF i > Len(m) THEN acc ELSE SumAt(m, i + 32, acc + m[i] * (1 + 2 * (i \div 32)))

\* crypto.createHash('sha256').update(m).digest(): 32 bytes
Sha256(m) == [i \in 1..32 |-> (SumAt(m, i, 0) + 31 * Len(m) + i) % 256]

\* crypto.createHmac('sha256', key).update(m).digest(): 32 bytes
HmacSha256(key, m) == Sha256(key \o Sha256(key \o m))

\* this.ivLength: "For AES, this is always 16"
ivLength == 16

\* the block size of AES
BlockSize == ivLength

\* the AES block permutation under a 32-byte key, and its inverse
BlockEncrypt(key, b) ==
    [i \in 1..BlockSize |->
        (b[BlockSize + 1 - i] + key[i] + 3 * key[BlockSize + i] + i) % 256]

BlockDecrypt(key, c) ==
    [j \in 1..BlockSize |->
        LET i == BlockSize + 1 - j
        IN  (c[i] + 1024 - key[i] - 3 * key[BlockSize + i] - i) % 256]

XorBlock(x, y) == [i \in 1..BlockSize |-> BitXor(x[i], y[i])]

\* PKCS#7: 1 to 16 bytes, each holding their number, fill the last block
Pkcs7Pad(m) ==
    LET n == BlockSize - (Len(m) % BlockSize)
    IN  m \o [i \in 1..n |-> n]

Pkcs7Valid(m) ==
    /\ Len(m) >= BlockSize
    /\ LET n == m[Len(m)]
       IN  /\ n >= 1 /\ n <= BlockSize
           /\ \A i \in (Len(m) - n + 1)..Len(m) : m[i] = n

Pkcs7Unpad(m) == SubSeq(m, 1, Len(m) - m[Len(m)])

RECURSIVE CbcEncryptBlocks(_, _, _)
CbcEncryptBlocks(key, prev, m) ==
    IF m = <<>> THEN <<>>
    ELSE With(BlockEncrypt(key, XorBlock(SubSeq(m, 1, BlockSize), prev)), LAMBDA c :
           c \o CbcEncryptBlocks(key, c, SubSeq(m, BlockSize + 1, Len(m))))

RECURSIVE CbcDecryptBlocks(_, _, _)
CbcDecryptBlocks(key, prev, c) ==
    IF c = <<>> THEN <<>>
    ELSE XorBlock(BlockDecrypt(key, SubSeq(c, 1, BlockSize)), prev)
         \o CbcDecryptBlocks(key, SubSeq(c, 1, BlockSize),
                             SubSeq(c, BlockSize + 1, Len(c)))

\* createCipheriv('aes-256-cbc', key, iv): update(m) followed by final()
AesCbcEncrypt(key, iv, m) ==
    With(key, LAMBDA k : With(m, LAMBDA bytes :
        CbcEncryptBlocks(k, iv, Pkcs7Pad(bytes))))

\* what final() makes of the decrypted blocks: the bytes before the padding,
\* ok FALSE where the padding is bad
Unpadded(m) ==
    IF Pkcs7Valid(m)
    THEN [ok |-> TRUE, bytes |-> Pkcs7Unpad(m)]
    ELSE [ok |-> FALSE, bytes |-> <<>>]

\* createDecipheriv('aes-256-cbc', key, iv): update(c) followed by final();
\* ok is FALSE where Node throws (key or IV of the wrong length, a ciphertext
\* that is not a positive number of blocks, bad padding)
AesCbcDecrypt(key, iv, c) ==
    With(key, LAMBDA k : With(c, LAMBDA blocks :
        IF \/ Len(k) # 32 \/ Len(iv) # BlockSize
           \/ blocks = <<>> \/ Len(blocks) % BlockSize # 0
        THEN [ok |-> FALSE, bytes |-> <<>>]
        ELSE With(CbcDecryptBlocks(k, iv, blocks), LAMBDA m : Unpadded(m))))

----------------------------------------------------------------------------
(* PasswordEncryption: key, encrypt, decrypt *)

\* what a call returns: a value, or the message of the Error it throws
Returned(v) == [ok |-> TRUE, value |-> v, error |-> "none"]

Thrown(msg) == [ok |-> FALSE, value |-> <<>>, error |-> msg]

\* a prepareSecretKey whose pattern has no {64}
PrepareSecretKey_AnyLength(key) ==
    IF IsHexString(key)
    THEN key
    ELSE HexEncode(Sha256(Utf8Encode(key)))

\* prepareSecretKey(key)
PrepareSecretKey(key) ==
    IF Len(key) = 64 /\ IsHexString(key)
    THEN key
    ELSE HexEncode(Sha256(Utf8Encode(key)))

\* encrypt(password), with the IV that crypto.randomBytes drew
Encrypt(key, password, iv) ==
    LET encrypted == HexEncode(AesCbcEncrypt(HexDecode(key), iv,
                                             Utf8Encode(password)))
    IN  Returned(HexEncode(iv) \o <<Chr.colon>> \o encrypted)

\* a decrypt without its catch block for the format error
Decrypt_RawError(key, encryptedPassword) ==
    With(Split(encryptedPassword, Chr.colon), LAMBDA parts :
      IF Len(parts) # 2
      THEN Thrown("Invalid encrypted password format")
      ELSE With(AesCbcDecrypt(HexDecode(key), HexDecode(parts[1]),
                              HexDecode(parts[2])), LAMBDA decrypted :
             IF decrypted.ok
             THEN Returned(Utf8Decode(decrypted.bytes))
             ELSE Thrown("Failed to decrypt password")))

\* decrypt(encryptedPassword)
Decrypt(key, encryptedPassword) ==
    With(Split(encryptedPassword, Chr.colon), LAMBDA parts :
      IF Len(parts) # 2
      THEN Thrown("Failed to decrypt password")
      ELSE With(AesCbcDecrypt(HexDecode(key), HexDecode(parts[1]),
                              HexDecode(parts[2])), LAMBDA decrypted :
             IF decrypted.ok
             THEN Returned(Utf8Decode(decrypted.bytes))
             ELSE Thrown("Failed to decrypt password")))

\* encryptTestData(data), with the IV that crypto.randomBytes drew
EncryptTestData(key, data, iv) ==
    LET encrypted == HexEncode(AesCbcEncrypt(HexDecode(key), iv,
                                             Utf8Encode(JsonStringify(data))))
    IN  Returned(HexEncode(iv) \o <<Chr.colon>> \o encrypted)

\* JSON.parse(decrypted) at the end of decryptTestData
ParsedTestData(parsed) ==
    IF parsed.ok THEN Returned(parsed.value)
    ELSE Thrown("Failed to decrypt test data")

\* decryptTestData(encryptedData)
DecryptTestData(key, encryptedData) ==
    With(Split(encryptedData, Chr.colon), LAMBDA parts :
      IF Len(parts) # 2
      THEN Thrown("Failed to decrypt test data")
      ELSE With(AesCbcDecrypt(HexDecode(key), HexDecode(parts[1]),
                              HexDecode(parts[2])), LAMBDA decrypted :
             IF decrypted.ok
             THEN ParsedTestData(JsonParse(Utf8Decode(decrypted.bytes)))
             ELSE Thrown("Failed to decrypt test data")))

----------------------------------------------------------------------------
(* PasswordEncryption: signed expiring tokens *)

\* the value of a base64 digit of either alphabet, -1 for any other code unit
Base64Value(u) ==
    IF u >= 65 /\ u <= 90 THEN u - 65
    ELSE IF u >= 97 /\ u <= 122 THEN u - 71
    ELSE IF u >= 48 /\ u <= 57 THEN u + 4
    ELSE IF u = Chr.plus \/ u = Chr.minus THEN 62
    ELSE IF u = Chr.slash \/ u = 95 THEN 63
    ELSE -1

Base64Digit(n) ==
    IF n < 26 THEN 65 + n
    ELSE IF n < 52 THEN 71 + n
    ELSE IF n < 62 THEN n - 4
    ELSE IF n = 62 THEN Chr.plus
    ELSE Chr.slash

\* the four digits written for the bytes b[i], b[i + 1], b[i + 2], '=' in the
\* place of the digits that no byte reaches
Base64Group(b, i) ==
    LET n == Len(b) - i + 1
        b2 == IF n >= 2 THEN b[i + 1] ELSE 0
        b3 == IF n >= 3 THEN b[i + 2] ELSE 0
    IN  <<Base64Digit(b[i] \div 4),
          Base64Digit((b[i] % 4) * 16 + (b2 \div 16)),
          IF n >= 2 THEN Base64Digit((b2 % 16) * 4 + (b3 \div 64)) ELSE Chr.equals,
          IF n >= 3 THEN Base64Digit(b3 % 64) ELSE Chr.equals>>

\* buf.toString('base64')
Base64Encode(b) ==
    Flatten([g \in 1..((Len(b) + 2) \div 3) |-> Base64Group(b, 3 * g - 2)])

\* the values of the digits of s before its first '='; the code units that
\* are no digit are left out
Base64Digits(s) ==
    With({i \in 1..Len(s) : s[i] = Chr.equals}, LAMBDA pads :
      With(SelectSeq(SubSeq(s, 1, IF pads = {} THEN Len(s)
                                  ELSE (CHOOSE i \in pads : \A j \in pads : i <= j) - 1),
                     LAMBDA u : Base64Value(u) >= 0),
           LAMBDA digits : [i \in 1..Len(digits) |-> Base64Value(digits[i])]))

\* the bytes of a sequence of digits: three of every four digits, one of two
\* digits left over, two of three
Base64Bytes(d) ==
    LET rest == Len(d) % 4
        n == 3 * (Len(d) \div 4) + (IF rest >= 2 THEN rest - 1 ELSE 0)
    IN  [k \in 1..n |->
            LET g == 4 * ((k - 1) \div 3)
                at == (k - 1) % 3
            IN  IF at = 0 THEN d[g + 1] * 4 + (d[g + 2] \div 16)
                ELSE IF at = 1 THEN (d[g + 2] % 16) * 16 + (d[g + 3] \div 4)
                ELSE (d[g + 3] % 4) * 64 + d[g + 4]]

\* Buffer.from(s, 'base64')
Base64Decode(s) == With(Base64Digits(s), LAMBDA d : Base64Bytes(d))

\* crypto.createHmac('sha256', this.secretKey).update(payload).digest('hex')
Sign(key, payload) == HexEncode(HmacSha256(Utf8Encode(key), Utf8Encode(payload)))

\* createSecureToken(data, expiryMinutes); Date.now() is read twice and
\* returns atTimestamp and then atExpiry
CreateSecureToken(key, data, expiryMinutes, atTimestamp, atExpiry) ==
    With(Base64Encode(Utf8Encode(JsonStringify(
           JObj([k \in {Word.data, Word.timestamp, Word.expiry} |->
                   IF k = Word.data THEN JStr(data)
                   ELSE IF k = Word.timestamp THEN JNum(atTimestamp)
                   ELSE JNum(atExpiry + (expiryMinutes * 60 * 1000))])))),
         LAMBDA tokenText :
            Returned(tokenText \o <<Chr.dot>> \o Sign(key, tokenText)))

\* decoded.expiry: undefined where decoded has no such property
HasExpiry(decoded) == decoded.t = "obj" /\ Word.expiry \in DOMAIN decoded.v

\* a check of the expiry that lets every token through
Expired_Never(now, decoded) == FALSE

\* a token that is expired for two milliseconds only
Expired_Briefly(now, decoded) ==
    /\ HasExpiry(decoded)
    /\ decoded.v[Word.expiry].t = "num"
    /\ now > decoded.v[Word.expiry].v
    /\ now <= decoded.v[Word.expiry].v + 2

\* Date.now() > decoded.expiry, the expiry converted to a number; undefined
\* and what else converts to NaN compare false
Expired(now, decoded) ==
    /\ HasExpiry(decoded)
    /\ LET expiry == decoded.v[Word.expiry]
       IN  CASE expiry.t = "num" -> now > expiry.v
             [] expiry.t = "null" -> now > 0
             [] expiry.t = "bool" -> now > (IF expiry.v THEN 1 ELSE 0)
             [] expiry.t = "str" /\ expiry.v = <<>> -> now > 0
             [] OTHER -> FALSE

\* a comparison that looks at the first eight characters only
SignatureMatches_Prefix(signature, expectedSignature) ==
    /\ Len(signature) >= 8
    /\ SubSeq(signature, 1, 8) = SubSeq(expectedSignature, 1, 8)

\* signature === expectedSignature
SignatureMatches(signature, expectedSignature) == signature = expectedSignature

\* the try block of verifySecureToken(token) from JSON.parse on
VerifyDecoded(decoded, now) ==
    IF ~decoded.ok THEN Thrown("SyntaxError")
    ELSE IF decoded.value.t = "null" THEN Thrown("TypeError")
    ELSE IF Expired(now, decoded.value) THEN Returned(JNull)
    ELSE Returned(decoded.value)

\* the try block of verifySecureToken(token) at the instant now: what it
\* returns, or the error it throws
VerifyTry(key, tokenText, now) ==
    With(Split(tokenText, Chr.dot), LAMBDA parts :
      IF Len(parts) # 2 THEN Returned(JNull)
      ELSE IF ~SignatureMatches(parts[2], Sign(key, parts[1])) THEN Returned(JNull)
      ELSE With(JsonParse(Utf8Decode(Base64Decode(parts[1]))), LAMBDA decoded :
             VerifyDecoded(decoded, now)))

\* a verifySecureToken without its catch block
VerifySecureToken_NoCatch(key, tokenText, now) == VerifyTry(key, tokenText, now)

\* verifySecureToken(token): the catch block logs and returns null
VerifySecureToken(key, tokenText, now) ==
    With(VerifyTry(key, tokenText, now), LAMBDA r :
         IF r.ok THEN r ELSE Returned(JNull))

----------------------------------------------------------------------------
(* PasswordEncryptionHelper: the walk over the sensitive fields *)

\* the IVs that crypto.randomBytes(this.ivLength) may return
IvOf(seed) == [i \in 1..ivLength |-> (37 * seed + 11 * i) % 256]

\* the IV drawn for one field of a walk: fields of different lengths get
\* different IVs
Draw(seed, plaintext) == IvOf((seed + Len(plaintext)) % (MaxIvSeed + 1))

\* const sensitiveFields = ['password', 'apiKey', 'token', 'secret', 'key']
SensitiveFields == {Word.password, Word.apiKey, Word.token, Word.secret, Word.key}

\* key.toLowerCase()
ToLowerCase(key) ==
    [i \in 1..Len(key) |-> IF key[i] >= 65 /\ key[i] <= 90 THEN key[i] + 32 ELSE key[i]]

\* sensitiveFields.includes(key.toLowerCase()) && typeof value === 'string'
IsSensitive(key, value) == ToLowerCase(key) \in SensitiveFields /\ value.t = "str"

\* result[key] = value on an object literal: the key __proto__ reaches the
\* setter of Object.prototype and makes no own property
SetProperty(result, key, value) ==
    IF key = Word.proto THEN result
    ELSE [k \in DOMAIN result \cup {key} |-> IF k = key THEN value ELSE result[k]]

\* JSON.parse(JSON.stringify(data))
DeepClone(data) == JsonParse(JsonStringify(data)).value

RECURSIVE EncryptObject(_, _, _)
RECURSIVE EncryptEntries(_, _, _, _, _)

\* what encryptObject makes of the value under a key
EncryptField(key, k, value, seed) ==
    IF IsSensitive(k, value)
    THEN JStr(Encrypt(key, value.v, Draw(seed, value.v)).value)
    ELSE EncryptObject(key, value, seed)

\* the loop over Object.entries(obj); Draw(seed, value) is the IV that
\* randomBytes returns when value is encrypted
EncryptEntries(key, obj, todo, result, seed) ==
    IF todo = {} THEN result
    ELSE With(CHOOSE e \in todo : TRUE, LAMBDA k :
           EncryptEntries(key, obj, todo \ {k},
                          SetProperty(result, k, EncryptField(key, k, obj[k], seed)),
                          seed))

\* encryptObject(obj)
EncryptObject(key, obj, seed) ==
    CASE obj.t = "arr" ->
           JArr([i \in 1..Len(obj.v) |-> EncryptObject(key, obj.v[i], seed)])
      [] obj.t = "obj" ->
           JObj(EncryptEntries(key, obj.v, DOMAIN obj.v, EmptyObject, seed))
      [] OTHER -> obj

\* encryptSensitiveFields(data)
EncryptSensitiveFields(key, data, seed) ==
    EncryptObject(key, DeepClone(data), seed)

RECURSIVE DecryptObject(_, _)
RECURSIVE DecryptEntries(_, _, _, _)

\* a decryptObject that drops the value that does not decrypt
DecryptOrKeep_Drop(d, value) == IF d.ok THEN JStr(d.value) ELSE JNull

\* a catch block that marks the value that did not decrypt
DecryptOrKeep_Mark(d, value) == IF d.ok THEN JStr(d.value) ELSE JStr(value.v \o <<63>>)

\* the try and the catch around decrypt(value): a value that does not
\* decrypt is kept
DecryptOrKeep(d, value) == IF d.ok THEN JStr(d.value) ELSE value

\* what decryptObject makes of the value under a key
DecryptField(key, k, value) ==
    IF IsSensitive(k, value)
    THEN DecryptOrKeep(Decrypt(key, value.v), value)
    ELSE DecryptObject(key, value)

\* the loop over Object.entries(obj)
DecryptEntries(key, obj, todo, result) ==
    IF todo = {} THEN result
    ELSE With(CHOOSE e \in todo : TRUE, LAMBDA k :
           DecryptEntries(key, obj, todo \ {k},
                          SetProperty(result, k, DecryptField(key, k, obj[k]))))

\* decryptObject(obj)
DecryptObject(key, obj) ==
    CASE obj.t = "arr" ->
           JArr([i \in 1..Len(obj.v) |-> DecryptObject(key, obj.v[i])])
      [] obj.t = "obj" ->
           JObj(DecryptEntries(key, obj.v, DOMAIN obj.v, EmptyObject))
      [] OTHER -> obj

\* decryptSensitiveFields(data)
DecryptSensitiveFields(key, data) == DecryptObject(key, DeepClone(data))

----------------------------------------------------------------------------
(* PasswordEncryptionHelper: credentials *)

\* if (value): null, false, 0 and '' are falsy
Truthy(value) ==
    CASE value.t = "null" -> FALSE
      [] value.t = "bool" -> value.v
      [] value.t = "num" -> value.v # 0
      [] value.t = "str" -> value.v # <<>>
      [] OTHER -> TRUE

\* the fields that encryptCredentials and decryptCredentials look at
CredentialFields == {Word.password, Word.apiKey, Word.token}

\* an encryptCredentials that encrypts every field
EncryptCredentials_All(key, credentials, seed) ==
    Returned(JObj([k \in DOMAIN credentials.v |->
        JStr(Encrypt(key, credentials.v[k].v, Draw(seed, credentials.v[k].v)).value)]))

\* encryptCredentials(credentials): a copy of the object in which the truthy
\* password, apiKey and token are encrypted; encrypt throws on a value that
\* is no string
EncryptCredentials(key, credentials, seed) ==
    IF \E k \in DOMAIN credentials.v \cap CredentialFields :
          Truthy(credentials.v[k]) /\ credentials.v[k].t # "str"
    THEN Thrown("Failed to encrypt password")
    ELSE Returned(JObj([k \in DOMAIN credentials.v |->
            IF k \in CredentialFields /\ Truthy(credentials.v[k])
            THEN JStr(Encrypt(key, credentials.v[k].v,
                              Draw(seed, credentials.v[k].v)).value)
            ELSE credentials.v[k]]))

\* what decryptCredentials makes of the fields it looks at
DecryptedFields(key, encryptedCredentials) ==
    [k \in {f \in DOMAIN encryptedCredentials.v \cap CredentialFields :
               Truthy(encryptedCredentials.v[f])} |->
        IF encryptedCredentials.v[k].t = "str"
        THEN Decrypt(key, encryptedCredentials.v[k].v)
        ELSE Thrown("Failed to decrypt password")]

\* decryptCredentials(encryptedCredentials): a copy of the object in which
\* the truthy password, apiKey and token are decrypted; what decrypt throws
\* reaches the caller
DecryptCredentials(key, encryptedCredentials) ==
    With(DecryptedFields(key, encryptedCredentials), LAMBDA fields :
      IF \E k \in DOMAIN fields : ~fields[k].ok
      THEN Thrown("Failed to decrypt password")
      ELSE Returned(JObj([k \in DOMAIN encryptedCredentials.v |->
              IF k \in DOMAIN fields THEN JStr(fields[k].value)
              ELSE encryptedCredentials.v[k]])))

----------------------------------------------------------------------------
(* PasswordEncryptionHelper: the password policy *)

\* [A-Z]
IsUppercase(u) == u >= 65 /\ u <= 90

\* [a-z]
IsLowercase(u) == u >= 97 /\ u <= 122

\* !@#$%^&*()_+-=[]{}|;:,.<>?
Symbols == {33, 64, 35, 36, 37, 94, 38, 42, 40, 41, 95, 43, 45, 61, 91, 93, 123, 125, 124, 59, 58, 44, 46, 60, 62, 63}

\* the names of the rules, in the order of the tests of the validator
PolicyFields == {"minLength", "maxLength", "requireUppercase",
                 "requireLowercase", "requireNumbers", "requireSymbols"}

\* the defaults of the destructuring
DefaultPolicy ==
    [minLength |-> 8, maxLength |-> 128, requireUppercase |-> TRUE,
     requireLowercase |-> TRUE, requireNumbers |-> TRUE, requireSymbols |-> FALSE]

\* const { minLength = 8, ... } = policy: a field the policy lacks gets its
\* default
PolicyOf(given) ==
    [f \in PolicyFields |-> IF f \in DOMAIN given THEN given[f] ELSE DefaultPolicy[f]]

\* one entry of errors: the text, and the number that `${...}` puts into it
ErrorMessage(text, n) == [text |-> text, n |-> n]

\* errors.push(...) under a condition
PushIf(condition, message) == IF condition THEN <<message>> ELSE <<>>

\* /[...]/.test(password) for a class of code units
Test(password, Class(_)) == \E i \in 1..Len(password) : Class(password[i])

\* the six tests of the validator, in their order
ValidatorErrors(policy, password) ==
    PushIf(Len(password) < policy.minLength,
           ErrorMessage("Password must be at least n characters long",
                        policy.minLength))
    \o PushIf(Len(password) > policy.maxLength,
              ErrorMessage("Password must be no more than n characters long",
                           policy.maxLength))
    \o PushIf(policy.requireUppercase /\ ~Test(password, IsUppercase),
              ErrorMessage("Password must contain at least one uppercase letter", 0))
    \o PushIf(policy.requireLowercase /\ ~Test(password, IsLowercase),
              ErrorMessage("Password must contain at least one lowercase letter", 0))
    \o PushIf(policy.requireNumbers /\ ~Test(password, IsDigit),
              ErrorMessage("Password must contain at least one number", 0))
    \o PushIf(policy.requireSymbols /\ ~Test(password, LAMBDA u : u \in Symbols),
              ErrorMessage("Password must contain at least one symbol", 0))

\* a validator that returns at the first rule that is violated
Validate_ShortCircuit(policy, password) ==
    With(ValidatorErrors(policy, password), LAMBDA errors :
        [isValid |-> errors = <<>>, errors |-> SubSeq(errors, 1, 1)])

\* the function that createPasswordValidator(policy) returns, applied to a
\* password
Validate(policy, password) ==
    With(ValidatorErrors(policy, password), LAMBDA errors :
        [isValid |-> Len(errors) = 0, errors |-> errors])

----------------------------------------------------------------------------
(* PasswordEncryption: generated passwords *)

OptionFields == {"includeUppercase", "includeLowercase", "includeNumbers",
                 "includeSymbols"}

\* const { includeUppercase = true, ... } = options
OptionsOf(given) == [f \in OptionFields |-> IF f \in DOMAIN given THEN given[f] ELSE TRUE]

\* a charset that takes every class
Charset_All(options) ==
    [i \in 1..26 |-> 96 + i] \o [i \in 1..26 |-> 64 + i] \o [i \in 1..10 |-> 47 + i]
    \o <<33, 64, 35, 36, 37, 94, 38, 42, 40, 41, 95, 43, 45, 61, 91, 93, 123, 125, 124, 59, 58, 44, 46, 60, 62, 63>>

\* the charset: a-z, A-Z, 0-9 and the symbols, each where its option is set
Charset(options) ==
    (IF options.includeLowercase THEN [i \in 1..26 |-> 96 + i] ELSE <<>>)
    \o (IF options.includeUppercase THEN [i \in 1..26 |-> 64 + i] ELSE <<>>)
    \o (IF options.includeNumbers THEN [i \in 1..10 |-> 47 + i] ELSE <<>>)
    \o (IF options.includeSymbols
        THEN <<33, 64, 35, 36, 37, 94, 38, 42, 40, 41, 95, 43, 45, 61, 91, 93, 123, 125, 124, 59, 58, 44, 46, 60, 62, 63>>
        ELSE <<>>)

\* Math.random() returns one of the fractions 0, 1/1024 .. 1023/1024
RandomResolution == 1024

\* the numerator of the n-th value that Math.random() returns in a run that
\* starts at seed.start and goes in steps of seed.step
Random(seed, n) == (seed.start + seed.step * n) % RandomResolution

\* charset.charAt(Math.floor(random * charset.length)): '' for an empty
\* charset
CharAt(charset, random) ==
    IF charset = <<>> THEN <<>>
    ELSE <<charset[((random * Len(charset)) \div RandomResolution) + 1]>>

\* generateSecurePassword(length, options) when Math.random() has been
\* called drawn times before
GenerateSecurePassword(length, options, seed, drawn) ==
    With(Charset(OptionsOf(options)), LAMBDA charset :
        Flatten([i \in 1..length |-> CharAt(charset, Random(seed, drawn + i - 1))]))

\* generateTestPasswords(count, options)
GenerateTestPasswords(count, options, seed) ==
    [p \in 1..count |-> GenerateSecurePassword(12, options, seed, 12 * (p - 1))]

----------------------------------------------------------------------------
(* The states of the parts of the layer that a specification leaves alone. *)

NoInput == [op |-> "none", value |-> JNull]

NoOutput == [ok |-> FALSE, value |-> <<>>, error |-> "not called"]

Called(r) == r.error # "not called"

NoIssue == [kind |-> "none", data |-> <<>>, ttl |-> 0, at |-> 0, expiry |-> 0, pos |-> 0]

\* new PasswordEncryption() with ENCRYPTION_KEY unset
DefaultSecretKey == PrepareSecretKey(Word.defaultKey)

\* a cipher that is not used
CFixed ==
    /\ secretKey = DefaultSecretKey
    /\ input = NoInput
    /\ blob = JNull
    /\ output = NoOutput

\* no token is made
TFixed ==
    /\ clock = 0
    /\ token = <<>>
    /\ issued = NoIssue
    /\ verdict = NoOutput

----------------------------------------------------------------------------
(* TestDataManager: actions *)

MInit ==
    /\ cleanupStrategy \in Strategies
    /\ generatedData = EmptyMap
    /\ cleanupHooks = <<>>
    /\ nextId = 1
    /\ pc = "idle"
    /\ plan = <<>>
    /\ hookIdx = 0
    /\ pending = "resolve"
    /\ log = <<>>
    /\ cleaned = FALSE
    /\ ret = NoRet

\* a manager that is not used
MFixed ==
    /\ MInit
    /\ cleanupStrategy = "auto"

\* what a generate call leaves of the manager
Generated(op, r) ==
    /\ generatedData' = r.reg
    /\ nextId' = nextId + r.used
    /\ ret' = [op |-> op, value |-> r.value]
    /\ cleaned' = FALSE
    /\ UNCHANGED <<cleanupStrategy, cleanupHooks, pc, plan, hookIdx, pending, log>>
    /\ UNCHANGED <<cvars, tvars>>

CallGenerateUser(limit) ==
    /\ nextId + 1 <= limit + 1
    /\ Generated("generateUser", GenerateUser(generatedData, nextId))

CallGenerateProduct(limit) ==
    /\ nextId + 1 <= limit + 1
    /\ Generated("generateProduct", GenerateProduct(generatedData, nextId))

CallGenerateOrder(limit) ==
    /\ nextId + 1 <= limit + 1
    /\ Generated("generateOrder", GenerateOrder(generatedData, nextId))

CallGenerateApiData(limit) ==
    \E endpoint \in Endpoints :
        /\ nextId + 2 <= limit + 1
        /\ Generated("generateApiData",
                     GenerateApiData(generatedData, nextId, endpoint))

CallGenerateUsers(limit) ==
    \E count \in 2..MaxBatch :
        /\ nextId + count <= limit + 1
        /\ Generated("generateUsers", GenerateUsers(generatedData, nextId, count))

CallRegisterCleanupHook ==
    \E hook \in HookOutcomes :
        /\ Len(cleanupHooks) < MaxHooks
        /\ cleanupHooks' = Append(cleanupHooks, hook)
        /\ UNCHANGED <<cleanupStrategy, generatedData, nextId, pc, plan, hookIdx,
                       pending, log, cleaned, ret>>
        /\ UNCHANGED <<cvars, tvars>>

CallGetDataStatistics ==
    /\ ret' = [op |-> "getDataStatistics", value |-> GetDataStatistics(generatedData)]
    /\ UNCHANGED <<cleanupStrategy, generatedData, cleanupHooks, nextId, pc, plan,
                   hookIdx, pending, log, cleaned>>
    /\ UNCHANGED <<cvars, tvars>>

\* cleanup(strategy) up to its first await; one call is in flight at a time
CleanupCall ==
    \E strategy \in StrategyArgs :
        /\ ~Busy
        /\ EnterSubs(SubPlan(ResolveStrategy(strategy, cleanupStrategy)),
                     <<StartEvent(nextId, Len(cleanupHooks))>>)
        /\ UNCHANGED <<cleanupStrategy, generatedData, cleanupHooks, nextId, cleaned, ret>>
        /\ UNCHANGED <<cvars, tvars>>

\* the awaited sub-cleanup has settled: a rejection leaves cleanup() through
\* its await, otherwise the call goes on
CleanupAfterSub ==
    /\ pc = "awaitSub"
    /\ IF pending = "reject"
       THEN /\ pc' = "rejected"
            /\ cleaned' = TRUE
            /\ pending' = "resolve"
            /\ UNCHANGED <<plan, hookIdx, log>>
       ELSE /\ EnterSubs(plan, log)
            /\ UNCHANGED cleaned
    /\ UNCHANGED <<cleanupStrategy, generatedData, cleanupHooks, nextId, ret>>
    /\ UNCHANGED <<cvars, tvars>>

\* the awaited hook has settled: the catch block logs and the loop goes on,
\* or the catch block itself throws and the cycle ends rejected
CleanupAfterHook ==
    /\ pc = "awaitHook"
    /\ IF HookLoopContinues(pending)
       THEN /\ EnterHookLoop(hookIdx + 1, log)
            /\ UNCHANGED cleaned
       ELSE /\ pc' = "rejected"
            /\ cleaned' = TRUE
            /\ pending' = "resolve"
            /\ UNCHANGED <<hookIdx, log>>
    /\ UNCHANGED <<cleanupStrategy, generatedData, cleanupHooks, nextId, plan, ret>>
    /\ UNCHANGED <<cvars, tvars>>

\* executeCleanupHooks has resolved: the registry is cleared and cleanup() resolves
CleanupFinish ==
    /\ pc = "awaitHooksDone"
    /\ generatedData' = ClearGeneratedData(generatedData, "null")
    /\ pc' = "resolved"
    /\ cleaned' = TRUE
    /\ UNCHANGED <<cleanupStrategy, cleanupHooks, nextId, plan, hookIdx, pending,
                   log, ret>>
    /\ UNCHANGED <<cvars, tvars>>

Init == MInit /\ CFixed /\ TFixed

\* the manager with its hooks and its cleanup cycle, one generator feeding it
Next ==
    \/ CallGenerateUser(MaxEntities)
    \/ CallRegisterCleanupHook
    \/ CleanupCall
    \/ CleanupAfterSub
    \/ CleanupAfterHook
    \/ CleanupFinish

Spec == Init /\ [][Next]_vars

\* the manager with every generator and its statistics, no hook registered
NextRegistry ==
    \/ CallGenerateUser(MaxRegistryEntities)
    \/ CallGenerateProduct(MaxRegistryEntities)
    \/ CallGenerateOrder(MaxRegistryEntities)
    \/ CallGenerateApiData(MaxRegistryEntities)
    \/ CallGenerateUsers(MaxRegistryEntities)
    \/ CallGetDataStatistics
    \/ CleanupCall
    \/ CleanupAfterSub
    \/ CleanupFinish

SpecRegistry == Init /\ [][NextRegistry]_vars

----------------------------------------------------------------------------
(* PasswordEncryption: the inputs and the actions of the cipher *)

\* code units of the plain strings: A, e acute, the euro sign, a high and a
\* low surrogate, the quote
Alphabet == {65, 233, 8364, 55357, 56832, Chr.quote}

Strings(n) == UNION {[1..k -> Alphabet] : k \in 0..n}

Passwords == Strings(MaxStrLen) \cup {Word.testPassword}

\* a key given as 64 hex characters is taken as it is
HexKey == [i \in 1..64 |-> HexDigit(i % 16)]

SecretKeys == {DefaultSecretKey, PrepareSecretKey(HexKey)}

Leafs == {JNull, JBool(FALSE), JNum(-7), JStr(<<55357>>), JStr(<<Chr.quote, 233>>)}

Scalars ==
    {JNull, JBool(TRUE), JBool(FALSE)}
    \cup {JNum(n) : n \in {0, -7, 42, 1234567}}
    \cup {JStr(str) : str \in Strings(MaxStrLen)}

Arrays == {JArr(a) : a \in UNION {[1..k -> Leafs] : k \in 0..MaxWidth}}

ObjectKeys == {<<97>>, <<>>, Word.proto, Word.password}

Objects ==
    {JObj(o) : o \in UNION {[K -> Leafs] :
                              K \in {S \in SUBSET ObjectKeys : Cardinality(S) <= MaxWidth}}}

Nested ==
    {JObj([k \in {Word.users} |-> a]) : a \in Arrays}
    \cup {JArr(<<JObj([k \in {Word.data} |-> a]), JNum(42)>>) : a \in Arrays}

\* the JSON values given to encryptTestData
TestValues == Scalars \cup Arrays \cup Objects \cup Nested

CipherInit ==
    /\ MFixed
    /\ TFixed
    /\ secretKey \in SecretKeys
    /\ input = NoInput
    /\ blob = JNull
    /\ output = NoOutput

CallEncrypt ==
    \E password \in Passwords, seed \in 0..MaxIvSeed :
        /\ input.op = "none"
        /\ input' = [op |-> "encrypt", value |-> JStr(password)]
        /\ blob' = JStr(Encrypt(secretKey, password, IvOf(seed)).value)
        /\ output' = NoOutput
        /\ UNCHANGED <<secretKey, mvars, tvars>>

CallDecrypt ==
    /\ input.op = "encrypt"
    /\ ~Called(output)
    /\ output' = With(Decrypt(secretKey, blob.v), LAMBDA r :
                       IF r.ok THEN Returned(JStr(r.value)) ELSE r)
    /\ UNCHANGED <<secretKey, input, blob, mvars, tvars>>

CallEncryptTestData ==
    \E data \in TestValues, seed \in 0..MaxIvSeed :
        /\ input.op = "none"
        /\ input' = [op |-> "encryptTestData", value |-> data]
        /\ blob' = JStr(EncryptTestData(secretKey, data, IvOf(seed)).value)
        /\ output' = NoOutput
        /\ UNCHANGED <<secretKey, mvars, tvars>>

CallDecryptTestData ==
    /\ input.op = "encryptTestData"
    /\ ~Called(output)
    /\ output' = DecryptTestData(secretKey, blob.v)
    /\ UNCHANGED <<secretKey, input, blob, mvars, tvars>>

\* 'invalid-encrypted-password'
InvalidEncryptedPassword == <<105, 110, 118, 97, 108, 105, 100, 45, 101, 110, 99, 114, 121, 112, 116, 101, 100, 45, 112, 97, 115, 115, 119, 111, 114, 100>>

\* a blob of 'TestPassword123!' made under the default key
SampleBlob == Encrypt(DefaultSecretKey, Word.testPassword, IvOf(0)).value

\* the strings given to decrypt that encrypt did not return under the key of
\* the cipher: strings of one part and of three, parts that are no hex, an
\* empty ciphertext, a blob cut short at its end and at its start, a blob
\* with another last digit, a blob with another first digit of its IV, and
\* (for the cipher with the other key) a blob made under the default key
ReceivedBlobs ==
    {InvalidEncryptedPassword, <<>>, <<Chr.colon>>,
     <<97, Chr.colon, 98, Chr.colon, 99>>,
     <<122, 122, Chr.colon, 122, 122>>,
     SubSeq(SampleBlob, 1, 33),
     SubSeq(SampleBlob, 1, Len(SampleBlob) - 2),
     SubSeq(SampleBlob, 3, Len(SampleBlob)),
     [SampleBlob EXCEPT ![Len(SampleBlob)] =
         IF SampleBlob[Len(SampleBlob)] = 48 THEN 49 ELSE 48],
     [SampleBlob EXCEPT ![1] = IF SampleBlob[1] = 48 THEN 49 ELSE 48],
     SampleBlob \o <<Chr.colon, 48, 48>>,
     SampleBlob}

\* decrypt(encryptedPassword) of a string received from elsewhere
CallDecryptReceived ==
    \E received \in ReceivedBlobs :
        /\ input.op = "none"
        /\ input' = [op |-> "decrypt", value |-> JStr(received)]
        /\ blob' = JStr(received)
        /\ output' = With(Decrypt(secretKey, received), LAMBDA r :
                           IF r.ok THEN Returned(JStr(r.value)) ELSE r)
        /\ UNCHANGED <<secretKey, mvars, tvars>>

NextCipher ==
    \/ CallEncrypt
    \/ CallDecrypt
    \/ CallDecryptReceived
    \/ CallEncryptTestData
    \/ CallDecryptTestData

\* encrypt and decrypt, encryptTestData and decryptTestData under one key
SpecCipher == CipherInit /\ [][NextCipher]_vars

----------------------------------------------------------------------------
(* PasswordEncryptionHelper: the inputs and the actions of the walk *)

WalkKeys == {Word.password, Word.mixedCase, Word.username, Word.apiKey, Word.proto}

WalkLeafs == {JStr(Word.testPassword), JStr(<<56832>>), JNum(42)}

WalkRecords ==
    {JObj(o) : o \in UNION {[K -> WalkLeafs] :
                              K \in {S \in SUBSET WalkKeys : Cardinality(S) <= MaxWidth}}}

\* the JSON values given to encryptSensitiveFields: records, records in an
\* array under a plain key, a record under a sensitive key, plain values
WalkData ==
    WalkRecords
    \cup {JObj([k \in {Word.users} |-> JArr(<<r, JNum(42)>>)]) : r \in WalkRecords}
    \cup {JObj([k \in {Word.secret} |-> r]) : r \in WalkRecords}
    \cup WalkLeafs

CallEncryptSensitiveFields ==
    \E data \in WalkData, seed \in 0..MaxIvSeed :
        /\ input.op = "none"
        /\ input' = [op |-> "encryptSensitiveFields", value |-> data]
        /\ blob' = EncryptSensitiveFields(secretKey, data, seed)
        /\ output' = NoOutput
        /\ UNCHANGED <<secretKey, mvars, tvars>>

CallDecryptSensitiveFields ==
    /\ input.op = "encryptSensitiveFields"
    /\ ~Called(output)
    /\ output' = Returned(DecryptSensitiveFields(secretKey, blob))
    /\ UNCHANGED <<secretKey, input, blob, mvars, tvars>>

\* what a fixture file holds under its keys: a plaintext, a blob of 'users'
\* made under the default key, that blob encrypted once more, a string with a
\* colon that is no blob, a number
StoredLeafs ==
    {JStr(Word.testPassword),
     JStr(Encrypt(DefaultSecretKey, Word.users, IvOf(0)).value),
     JStr(Encrypt(DefaultSecretKey,
                  Encrypt(DefaultSecretKey, Word.users, IvOf(0)).value,
                  IvOf(1)).value),
     JStr(<<97, Chr.colon, 98>>),
     JNum(42)}

StoredKeys == {Word.password, Word.token, Word.mixedCase, Word.username}

StoredRecords ==
    {JObj(o) : o \in UNION {[K -> StoredLeafs] :
                              K \in {S \in SUBSET StoredKeys : Cardinality(S) <= MaxWidth}}}

\* the JSON values given to decryptSensitiveFields that encryptSensitiveFields
\* did not make: records, and records in an array under a plain key
StoredData ==
    StoredRecords
    \cup {JObj([k \in {Word.users} |-> JArr(<<r, JNum(42)>>)]) : r \in StoredRecords}

\* decryptSensitiveFields(data) on data that mixes plaintexts and blobs
CallDecryptStored ==
    \E data \in StoredData :
        /\ input.op = "none"
        /\ input' = [op |-> "decryptSensitiveFields", value |-> data]
        /\ blob' = data
        /\ output' = Returned(DecryptSensitiveFields(secretKey, data))
        /\ UNCHANGED <<secretKey, mvars, tvars>>

\* decryptSensitiveFields(decryptSensitiveFields(d)): the second call, on
\* what the first returned; input holds d, blob what the second call is given
CallDecryptSensitiveFieldsAgain ==
    /\ input.op \in {"decryptSensitiveFields", "encryptSensitiveFields"}
    /\ Called(output)
    /\ input' = [op |-> "decryptSensitiveFieldsAgain", value |-> blob]
    /\ blob' = output.value
    /\ output' = Returned(DecryptSensitiveFields(secretKey, output.value))
    /\ UNCHANGED <<secretKey, mvars, tvars>>

NextWalk ==
    \/ CallEncryptSensitiveFields
    \/ CallDecryptSensitiveFields
    \/ CallDecryptStored
    \/ CallDecryptSensitiveFieldsAgain

\* encryptSensitiveFields and decryptSensitiveFields under one key
SpecWalk == CipherInit /\ [][NextWalk]_vars

----------------------------------------------------------------------------
(* PasswordEncryptionHelper: the inputs and the actions of the credentials *)

CredentialKeys == CredentialFields \cup {Word.username}

\* the strings of the fields: none, 'TestPassword123!', a high surrogate
CredentialStrings == {<<>>, Word.testPassword, <<55357>>}

\* the credentials objects: every choice of fields, every choice of strings
Credentials ==
    {JObj(c) : c \in UNION {[K -> {JStr(str) : str \in CredentialStrings}] :
                              K \in SUBSET CredentialKeys}}

CallEncryptCredentials ==
    \E credentials \in Credentials, seed \in 0..MaxIvSeed :
        /\ input.op = "none"
        /\ input' = [op |-> "encryptCredentials", value |-> credentials]
        /\ blob' = EncryptCredentials(secretKey, credentials, seed).value
        /\ output' = NoOutput
        /\ UNCHANGED <<secretKey, mvars, tvars>>

CallDecryptCredentials ==
    /\ input.op = "encryptCredentials"
    /\ ~Called(output)
    /\ output' = DecryptCredentials(secretKey, blob)
    /\ UNCHANGED <<secretKey, input, blob, mvars, tvars>>

NextCredentials ==
    \/ CallEncryptCredentials
    \/ CallDecryptCredentials

\* encryptCredentials and decryptCredentials under one key
SpecCredentials == CipherInit /\ [][NextCredentials]_vars

----------------------------------------------------------------------------
(* PasswordEncryption: the inputs and the actions of the key *)

\* 64 hex digits in capitals
UpperHexKey == [i \in 1..64 |-> IF HexKey[i] >= 97 THEN HexKey[i] - 32 ELSE HexKey[i]]

\* the passphrases: none, words, a string of the break character, strings
\* with an accent and with an unpaired surrogate, 64 hex digits in either
\* case and in both, and strings that miss being 64 hex digits by a
\* character, by their length or by a line feed at their end
Passphrases ==
    {<<>>, Word.defaultKey, Word.otherKey, Word.testPassword, Word.key,
     <<Chr.colon>>, <<233>>, <<55357>>,
     HexKey, UpperHexKey,
     [i \in 1..64 |-> IF i <= 32 THEN HexKey[i] ELSE UpperHexKey[i]],
     [HexKey EXCEPT ![64] = 103],
     [HexKey EXCEPT ![1] = 32],
     SubSeq(HexKey, 1, 63),
     HexKey \o <<48>>,
     HexKey \o <<10>>,
     HexKey \o HexKey}

\* new PasswordEncryption() with ENCRYPTION_KEY set to the passphrase; an
\* empty ENCRYPTION_KEY gives the default
Construct ==
    \E env \in Passphrases :
        /\ secretKey' = PrepareSecretKey(IF env = <<>> THEN Word.defaultKey ELSE env)
        /\ input' = [op |-> "new", value |-> JStr(env)]
        /\ blob' = JNull
        /\ output' = NoOutput
        /\ UNCHANGED <<mvars, tvars>>

CallPrepareSecretKey ==
    \E key \in Passphrases :
        /\ input' = [op |-> "prepareSecretKey", value |-> JStr(key)]
        /\ output' = Returned(JStr(PrepareSecretKey(key)))
        /\ UNCHANGED <<secretKey, blob, mvars, tvars>>

NextKey ==
    \/ Construct
    \/ CallPrepareSecretKey

\* the key of the cipher
SpecKey == CipherInit /\ [][NextKey]_vars

----------------------------------------------------------------------------
(* PasswordEncryptionHelper: the inputs and the actions of the policy *)

\* the policies given to createPasswordValidator: none, and every choice of
\* the four required classes with or without length bounds
GivenPolicies ==
    {<<>>}
    \cup {[f \in {"requireUppercase", "requireLowercase", "requireNumbers",
                  "requireSymbols"} \cup L |->
              IF f = "minLength" THEN 3
              ELSE IF f = "maxLength" THEN 2
              ELSE f \in R] :
            R \in SUBSET {"requireUppercase", "requireLowercase", "requireNumbers",
                          "requireSymbols"},
            L \in SUBSET {"minLength", "maxLength"}}

\* the passwords given to the validator: the passwords of the test suite and
\* of the spec, short ones of each class, '~' which is in no class, letters
\* and a digit outside ASCII, and a password of 129 characters
PolicyPasswords ==
    {<<>>,
     <<97>>,
     <<65>>,
     <<49>>,
     <<33>>,
     <<126>>,
     <<97, 65>>,
     <<97, 65, 49>>,
     <<97, 65, 49, 33>>,
     <<65, 98, 99, 49, 50, 51, 52, 53>>,
     <<115, 104, 111, 114, 116>>,
     <<110, 111, 117, 112, 112, 101, 114, 99, 97, 115, 101, 49, 50, 51, 33>>,
     <<78, 79, 76, 79, 87, 69, 82, 67, 65, 83, 69, 49, 50, 51, 33>>,
     <<78, 111, 78, 117, 109, 98, 101, 114, 115, 33>>,
     <<78, 111, 83, 121, 109, 98, 111, 108, 115, 49, 50, 51>>,
     <<86, 97, 108, 105, 100, 80, 97, 115, 115, 49, 50, 51, 33>>,
     <<233, 201, 1635>>,
     [i \in 1..129 |-> 97]}

CallCreatePasswordValidator ==
    \E given \in GivenPolicies :
        /\ input.op = "none"
        /\ input' = [op |-> "createPasswordValidator", value |-> given]
        /\ blob' = PolicyOf(given)
        /\ output' = NoOutput
        /\ UNCHANGED <<secretKey, mvars, tvars>>

\* validator(password)
CallValidator ==
    \E password \in PolicyPasswords :
        /\ input.op = "createPasswordValidator"
        /\ output' = Returned([password |-> password,
                               result |-> Validate(blob, password)])
        /\ UNCHANGED <<secretKey, input, blob, mvars, tvars>>

NextPolicy ==
    \/ CallCreatePasswordValidator
    \/ CallValidator

\* validators and the passwords they are given
SpecPolicy == CipherInit /\ [][NextPolicy]_vars

----------------------------------------------------------------------------
(* PasswordEncryption: the inputs and the actions of the generator *)

\* the options given: none, and every choice of the four classes
GivenOptions == {<<>>} \cup {[f \in OptionFields |-> f \in C] : C \in SUBSET OptionFields}

\* the lengths asked for
Lengths == {0, 1, 12, 16}

\* the numbers of passwords asked for
Counts == {0, 1, 2, 5}

\* the runs of Math.random(): the same value again and again (the least, one
\* in the middle, the greatest), and values that go through the range in
\* small and in large steps
Seeds == [start : {0, 300, RandomResolution - 1}, step : {0, 1, 97, 341}]

CallGenerateSecurePassword ==
    \E length \in Lengths, options \in GivenOptions, seed \in Seeds :
        /\ input.op = "none"
        /\ input' = [op |-> "generateSecurePassword",
                     value |-> [length |-> length, options |-> options]]
        /\ output' = Returned(JStr(GenerateSecurePassword(length, options, seed, 0)))
        /\ UNCHANGED <<secretKey, blob, mvars, tvars>>

CallGenerateTestPasswords ==
    \E count \in Counts, options \in GivenOptions, seed \in Seeds :
        /\ input.op = "none"
        /\ input' = [op |-> "generateTestPasswords",
                     value |-> [length |-> count, options |-> options]]
        /\ output' = With(GenerateTestPasswords(count, options, seed), LAMBDA passwords :
                        Returned(JArr([p \in 1..Len(passwords) |-> JStr(passwords[p])])))
        /\ UNCHANGED <<secretKey, blob, mvars, tvars>>

NextGenerate ==
    \/ CallGenerateSecurePassword
    \/ CallGenerateTestPasswords

\* the passwords that one call generates
SpecGenerate == CipherInit /\ [][NextGenerate]_vars

----------------------------------------------------------------------------
(* PasswordEncryption: the inputs and the actions of the tokens *)

\* the key of another cipher object
ForeignSecretKey == PrepareSecretKey(Word.otherKey)

\* the data put into tokens: a word, a JSON text, an unpaired surrogate
TokenData == {Word.users, <<Chr.lbrace, Chr.quote, 233, Chr.quote, Chr.rbrace>>,
              <<55357>>}

\* the lifetimes in minutes
Lifetimes == {-1, 0, 1, 60}

\* the readings of the clock, in milliseconds
Instants ==
    {100000 + offset : offset \in {0, 1, 2, 3, 59999, 60000, 60001, 60002,
                                    3599999, 3600000, 3600001, 3600002}}

\* the characters put in the place of a character of a token
TamperChars == {65, 102, 48, Chr.dot}

\* strings that no createSecureToken made
MalformedTokens == {Word.invalidToken, <<>>, <<Chr.dot>>, Word.users,
                    <<97, Chr.dot, 98, Chr.dot, 99>>}

Base64Of(text) == Base64Encode(Utf8Encode(text))

\* payload segments that decode to no JSON text
GarbledPayloads == {<<33, 33, 33, 33>>, <<>>,
                    Base64Of(<<Chr.lbrace, 98, 97, 100>>),
                    Base64Of(<<Chr.lbrace, Chr.quote, 97, Chr.quote, Chr.colon, Chr.rbrace>>)}

\* payload segments that decode to JSON texts of other shapes: null, 5, {}
OtherPayloads == {Base64Of(Lit.null), Base64Of(<<53>>),
                  Base64Of(<<Chr.lbrace, Chr.rbrace>>)}

TokenInit ==
    /\ MFixed
    /\ secretKey = DefaultSecretKey
    /\ input = NoInput
    /\ blob = JNull
    /\ output = NoOutput
    /\ clock = 100000
    /\ token = <<>>
    /\ issued = NoIssue
    /\ verdict = NoOutput

\* createSecureToken(data, ttl) of this cipher object or of another one; the
\* clock may advance between the two reads of Date.now()
CallCreateSecureToken ==
    \E data \in TokenData, ttl \in Lifetimes, skew \in 0..MaxSkew,
       signer \in {"own", "foreign"} :
        /\ issued.kind = "none"
        /\ token' = CreateSecureToken(
                        IF signer = "own" THEN secretKey ELSE ForeignSecretKey,
                        data, ttl, clock, clock + skew).value
        /\ clock' = clock + skew
        /\ issued' = [kind |-> IF signer = "own" THEN "created" ELSE "foreign",
                      data |-> data, ttl |-> ttl, at |-> clock + skew,
                      expiry |-> clock + skew + (ttl * 60 * 1000), pos |-> 0]
        /\ verdict' = NoOutput
        /\ UNCHANGED <<cvars, mvars>>

\* a string that is no token, or a payload segment of another shape signed
\* with the key of this cipher object
ReceiveToken ==
    /\ issued.kind = "none"
    /\ \/ \E t \in MalformedTokens :
            /\ token' = t
            /\ issued' = [NoIssue EXCEPT !.kind = "malformed"]
       \/ \E payload \in GarbledPayloads \cup OtherPayloads :
            /\ token' = payload \o <<Chr.dot>> \o Sign(secretKey, payload)
            /\ issued' = [NoIssue EXCEPT
                            !.kind = IF payload \in GarbledPayloads
                                     THEN "garbled" ELSE "other"]
    /\ verdict' = NoOutput
    /\ UNCHANGED <<clock, cvars, mvars>>

\* one character of a token that was just made and has verified is replaced
\* by another one
TamperToken ==
    \E i \in 1..Len(token), c \in TamperChars :
        /\ issued.kind = "created"
        /\ clock = issued.at
        /\ Called(verdict) /\ verdict.value.t = "obj"
        /\ token[i] # c
        /\ token' = [token EXCEPT ![i] = c]
        /\ issued' = [issued EXCEPT !.kind = "tampered", !.pos = i]
        /\ verdict' = NoOutput
        /\ UNCHANGED <<clock, cvars, mvars>>

\* time passes
ClockTick ==
    \E t \in Instants :
        /\ issued.kind \notin {"none", "tampered"}
        /\ t > clock
        /\ clock' = t
        /\ verdict' = NoOutput
        /\ UNCHANGED <<token, issued, cvars, mvars>>

CallVerifySecureToken ==
    /\ issued.kind # "none"
    /\ ~Called(verdict)
    /\ verdict' = VerifySecureToken(secretKey, token, clock)
    /\ UNCHANGED <<clock, token, issued, cvars, mvars>>

\* verifySecureToken(token) once more on a token that was verified, at the
\* same instant or later; input keeps whether the verification before it
\* returned null
CallVerifySecureTokenAgain ==
    \E t \in Instants :
        /\ Called(verdict)
        /\ issued.kind # "tampered"
        /\ t >= clock
        /\ clock' = t
        /\ verdict' = VerifySecureToken(secretKey, token, t)
        /\ input' = [op |-> "verifySecureTokenAgain",
                     value |-> JBool(verdict.value.t = "null")]
        /\ UNCHANGED <<token, issued, secretKey, blob, output, mvars>>

NextToken ==
    \/ CallCreateSecureToken
    \/ ReceiveToken
    \/ TamperToken
    \/ ClockTick
    \/ CallVerifySecureToken
    \/ CallVerifySecureTokenAgain

\* the tokens of one cipher object
SpecToken == TokenInit /\ [][NextToken]_vars

----------------------------------------------------------------------------
(* Properties of the manager *)

\* the step in which the cleanup() call in flight settles
Settles == Busy /\ pc' \in {"resolved", "rejected"}

\* the positions of the hooks a cycle has invoked, in the order of invocation
HooksInvoked(l) ==
    LET hooks == SelectSeq(l, LAMBDA e : e.kind = "hook")
    IN  [i \in 1..Len(hooks) |-> hooks[i].idx]

\* the sub-cleanups a cycle has run, in the order they ran
SubsRun(l) ==
    LET subs == SelectSeq(l, LAMBDA e : e.kind = "sub")
    IN  [i \in 1..Len(subs) |-> subs[i].name]

\* the identities of the entities registered under a type
IdsOf(reg, type) ==
    {GetGeneratedData(reg, type)[i].id : i \in 1..Len(GetGeneratedData(reg, type))}

\* p is a prefix of q
IsPrefix(p, q) == Len(p) <= Len(q) /\ SubSeq(q, 1, Len(p)) = p

\* the registry holds nothing: getGeneratedData(t) is empty for every type
RegistryEmpty(reg) == \A t \in DOMAIN reg \cup Types : GetGeneratedData(reg, t) = <<>>

\* C5: a cleanup() call (here: one whose strategy selects no sub-cleanup, as
\* cleanup() does on a manager configured with 'auto') resolves, has invoked
\* every registered hook exactly once in registration order whichever hooks
\* failed, and leaves getDataStatistics().totalGenerated at 0.
C5_CleanupExactlyOnce ==
    [][(Settles /\ SubsRun(log') = <<>>) =>
          /\ pc' = "resolved"
          /\ HooksInvoked(log') = [i \in 1..Len(cleanupHooks') |-> i]
          /\ GetDataStatistics(generatedData').totalGenerated = 0]_vars

\* C6: every cleanup(strategy) call ends with the registry empty, whether or
\* not a sub-cleanup or a hook failed during the cycle.
C6_RegistryClearedAlways ==
    [][Settles => RegistryEmpty(generatedData')]_vars

\* the generators that return one entity
GenerateOps == {"generateUser", "generateProduct", "generateOrder", "generateApiData"}

\* the type label each generator registers its entity under
TypeLabel(op) ==
    CASE op = "generateUser" -> "user"
      [] op = "generateProduct" -> "product"
      [] op = "generateOrder" -> "order"
      [] op = "generateApiData" -> "api"

\* C7: a generateUser, generateProduct, generateOrder or generateApiData call
\* leaves the entity it returns at the end of the sequence of its type label,
\* behind the entries that were there, and every sequence of the registry
\* keeps its earlier entries, unchanged and in order, as a prefix.
C7_RegistryAppend ==
    [][(ret' # ret /\ ret'.op \in GenerateOps) =>
          /\ ret'.value.type = TypeLabel(ret'.op)
          /\ GetGeneratedData(generatedData', TypeLabel(ret'.op))
                = Append(GetGeneratedData(generatedData, TypeLabel(ret'.op)),
                         ret'.value)
          /\ \A t \in DOMAIN generatedData \cup Types :
                IsPrefix(GetGeneratedData(generatedData, t),
                         GetGeneratedData(generatedData', t))]_vars

\* a generator has appended behind an entity that was already registered
C7_Witness ==
    /\ ret.op = "generateProduct"
    /\ Len(GetGeneratedData(generatedData, "product")) = 2
    /\ GetGeneratedData(generatedData, "product")[2] = ret.value
    /\ GetGeneratedData(generatedData, "user") # <<>>

\* C8: getDataStatistics() counts, for every type of the registry, the
\* entities registered under it, totals them, and the call changes neither
\* the registry nor the hook list.
C8_StatisticsCount ==
    /\ [](LET stats == GetDataStatistics(generatedData)
              all == UNION {IdsOf(generatedData, t) : t \in DOMAIN generatedData}
          IN  /\ DOMAIN stats.byType = DOMAIN generatedData
              /\ \A t \in DOMAIN generatedData :
                    stats.byType[t] = Cardinality(IdsOf(generatedData, t))
              /\ stats.totalGenerated = Cardinality(all))
    /\ [][(ret' # ret /\ ret'.op = "getDataStatistics") =>
            /\ ret'.value = GetDataStatistics(generatedData)
            /\ UNCHANGED <<generatedData, cleanupHooks>>]_vars

\* the statistics of the spec's example, scaled: two users, a product, an order
C8_Witness ==
    /\ ret.op = "getDataStatistics"
    /\ ret.value.totalGenerated = 4
    /\ DOMAIN ret.value.byType = {"user", "product", "order"}
    /\ ret.value.byType["user"] = 2
    /\ ret.value.byType["product"] = 1
    /\ ret.value.byType["order"] = 1

\* C9: a cleanup() call that follows a settled cleanup() call with nothing
\* generated in between resolves, finds the registry empty and leaves the
\* registry and the hook list as they were.
C9_CleanupIdempotent ==
    [][(Settles /\ cleaned) =>
          /\ pc' = "resolved"
          /\ RegistryEmpty(generatedData)
          /\ generatedData' = generatedData
          /\ cleanupHooks' = cleanupHooks]_vars

----------------------------------------------------------------------------
(* Properties of the cipher. *)

\* C1 as amended: under one key and whatever IV was drawn, decrypt returns
\* the string that encrypt was given when no surrogate of the string stands
\* alone, and decryptTestData returns a value deeply equal to the JSON value
\* that encryptTestData was given.
C1_RoundTrip ==
    /\ (input.op = "encrypt" /\ Called(output) /\ WellFormed(input.value.v))
          => (output.ok /\ output.value.v = input.value.v)
    /\ (input.op = "encryptTestData" /\ Called(output))
          => (output.ok /\ DeepEqual(output.value, input.value))

\* 'TestPassword123!' has come back from decrypt
C1_Witness ==
    /\ input.op = "encrypt"
    /\ input.value.v = Word.testPassword
    /\ output.ok
    /\ output.value.v = Word.testPassword

\* C1 as stated: decrypt returns the string that encrypt was given, for every
\* string, and decryptTestData a value deeply equal to what encryptTestData
\* was given.
C1_RoundTripEveryString ==
    /\ (input.op = "encrypt" /\ Called(output))
          => (output.ok /\ output.value.v = input.value.v)
    /\ (input.op = "encryptTestData" /\ Called(output))
          => (output.ok /\ DeepEqual(output.value, input.value))

\* the string does not split on ':' into two parts, or its parts hold no
\* IV of 16 bytes, no ciphertext of a positive number of blocks, or blocks
\* that end in no PKCS#7 padding under the key
Undecryptable(key, encryptedPassword) ==
    LET parts == Split(encryptedPassword, Chr.colon)
        iv == HexDecode(parts[1])
        c == HexDecode(parts[2])
    IN  \/ Len(parts) # 2
        \/ Len(iv) # 16
        \/ c = <<>> \/ Len(c) % 16 # 0
        \/ ~Pkcs7Valid(CbcDecryptBlocks(HexDecode(key), iv, c))

\* C14: decrypt returns no value for a string that does not split on ':'
\* into two parts or whose IV and ciphertext do not decrypt under the key: it
\* throws an error with the message 'Failed to decrypt password'; and a
\* decrypt call leaves the key of the cipher as it was.
C14_DecryptThrows ==
    /\ []((input.op \in {"decrypt", "encrypt"} /\ Called(output)
           /\ Undecryptable(secretKey, blob.v))
          => (~output.ok /\ output.error = "Failed to decrypt password"))
    /\ [][(~Called(output) \/ input.op = "none") /\ Called(output')
            /\ input'.op \in {"decrypt", "encrypt"}
          => secretKey' = secretKey]_vars

\* decrypt has thrown 'Failed to decrypt password' on
\* 'invalid-encrypted-password'
C14_Witness ==
    /\ input.op = "decrypt"
    /\ input.value.v = InvalidEncryptedPassword
    /\ ~output.ok
    /\ output.error = "Failed to decrypt password"

\* the digits 0-9, a-f and A-F
HexCharacters == (48..57) \cup (97..102) \cup (65..70)

\* exactly 64 hexadecimal characters
Is64Hex(str) == Len(str) = 64 /\ \A i \in 1..Len(str) : str[i] \in HexCharacters

\* C15: prepareSecretKey(p) returns p as it is when p is exactly 64
\* hexadecimal characters and the hex SHA-256 digest of p otherwise; what it
\* returns is always 64 hexadecimal characters, so is the key of every cipher
\* object, and two calls with the same passphrase return the same key.
C15_KeyDerivation ==
    /\ []((input.op = "prepareSecretKey" /\ Called(output)) =>
            /\ output.ok
            /\ Is64Hex(output.value.v)
            /\ Is64Hex(input.value.v) => output.value.v = input.value.v
            /\ ~Is64Hex(input.value.v) =>
                  output.value.v = HexEncode(Sha256(Utf8Encode(input.value.v))))
    /\ [](Is64Hex(secretKey))
    /\ [][(input.op = "prepareSecretKey" /\ input'.op = "prepareSecretKey"
           /\ input'.value = input.value) => output' = output]_vars

\* 64 hex digits in capitals came back as they were, for a cipher made from
\* a passphrase
C15_Witness ==
    /\ input.op = "prepareSecretKey"
    /\ input.value.v = UpperHexKey
    /\ output.value.v = UpperHexKey
    /\ secretKey = HexEncode(Sha256(Utf8Encode(Word.otherKey)))

\* the rules of a policy in the order in which they are reported
RuleOrder == <<"minLength", "maxLength", "uppercase", "lowercase", "number", "symbol">>

\* the password violates the rule of the policy
Violates(policy, password, rule) ==
    CASE rule = "minLength" -> Len(password) < policy.minLength
      [] rule = "maxLength" -> Len(password) > policy.maxLength
      [] rule = "uppercase" ->
           policy.requireUppercase /\ \A i \in 1..Len(password) : password[i] \notin 65..90
      [] rule = "lowercase" ->
           policy.requireLowercase /\ \A i \in 1..Len(password) : password[i] \notin 97..122
      [] rule = "number" ->
           policy.requireNumbers /\ \A i \in 1..Len(password) : password[i] \notin 48..57
      [] rule = "symbol" ->
           policy.requireSymbols /\ \A i \in 1..Len(password) : password[i] \notin Symbols

\* the text of the error of a rule
TextOf(rule) ==
    CASE rule = "minLength" -> "Password must be at least n characters long"
      [] rule = "maxLength" -> "Password must be no more than n characters long"
      [] rule = "uppercase" -> "Password must contain at least one uppercase letter"
      [] rule = "lowercase" -> "Password must contain at least one lowercase letter"
      [] rule = "number" -> "Password must contain at least one number"
      [] rule = "symbol" -> "Password must contain at least one symbol"

\* C16: for every password the errors of the validator are the errors of
\* the rules the password violates, one each, in the order minLength,
\* maxLength, uppercase, lowercase, number, symbol, and isValid is true
\* exactly when there is no error.
C16_ValidatorAccumulates ==
    (input.op = "createPasswordValidator" /\ Called(output)) =>
        LET policy == PolicyOf(input.value)
            password == output.value.password
            result == output.value.result
            violated == SelectSeq(RuleOrder, LAMBDA r : Violates(policy, password, r))
        IN  /\ output.ok
            /\ Len(result.errors) = Len(violated)
            /\ \A i \in 1..Len(violated) : result.errors[i].text = TextOf(violated[i])
            /\ result.isValid <=> result.errors = <<>>

\* 'short' under the policy of the test suite (8 characters, all four
\* classes) got the four errors of minLength, uppercase, number and symbol
C16_Witness ==
    /\ input.op = "createPasswordValidator"
    /\ blob.minLength = 8 /\ blob.requireSymbols /\ blob.requireUppercase
    /\ blob.requireLowercase /\ blob.requireNumbers
    /\ Called(output)
    /\ output.value.password = <<115, 104, 111, 114, 116>>
    /\ ~output.value.result.isValid
    /\ Len(output.value.result.errors) = 4
    /\ output.value.result.errors[1].n = 8
    /\ output.value.result.errors[4].text = "Password must contain at least one symbol"

\* the characters of the four classes
ClassOf(name) ==
    CASE name = "includeLowercase" -> 97..122
      [] name = "includeUppercase" -> 65..90
      [] name = "includeNumbers" -> 48..57
      [] name = "includeSymbols" -> Symbols

\* the classes that the options given enable: a class that is not named is
\* enabled
Enabled(given) == {f \in OptionFields : f \notin DOMAIN given \/ given[f]}

\* every character of the password is of an enabled class
OfEnabledClasses(password, given) ==
    \A i \in 1..Len(password) : \E f \in Enabled(given) : password[i] \in ClassOf(f)

\* C17: with a class enabled, generateSecurePassword(length, opts) returns
\* length characters, each of an enabled class, and
\* generateTestPasswords(count, opts) returns count such passwords of 12
\* characters.
C17_GeneratedFromEnabledClasses ==
    /\ (input.op = "generateSecurePassword" /\ Enabled(input.value.options) # {}) =>
          /\ output.ok
          /\ output.value.t = "str"
          /\ Len(output.value.v) = input.value.length
          /\ OfEnabledClasses(output.value.v, input.value.options)
    /\ (input.op = "generateTestPasswords" /\ Enabled(input.value.options) # {}) =>
          /\ output.ok
          /\ output.value.t = "arr"
          /\ Len(output.value.v) = input.value.length
          /\ \A p \in 1..Len(output.value.v) :
                /\ output.value.v[p].t = "str"
                /\ Len(output.value.v[p].v) = 12
                /\ OfEnabledClasses(output.value.v[p].v, input.value.options)

\* five passwords of 12 digits and capitals, not all of one character, have
\* been generated
C17_Witness ==
    /\ input.op = "generateTestPasswords"
    /\ Enabled(input.value.options) = {"includeNumbers", "includeUppercase"}
    /\ Len(output.value.v) = 5
    /\ \A p \in 1..5 : Len(output.value.v[p].v) = 12
    /\ \E i \in 1..12 : output.value.v[1].v[i] \in 48..57
    /\ \E i \in 1..12 : output.value.v[5].v[i] \in 65..90

\* the classes of which the password holds a character
ClassesIn(password) ==
    {f \in OptionFields : \E i \in 1..Len(password) : password[i] \in ClassOf(f)}

\* a capital, a small letter, and characters of three classes or more
MeetsComposition(password) ==
    /\ "includeUppercase" \in ClassesIn(password)
    /\ "includeLowercase" \in ClassesIn(password)
    /\ Cardinality(ClassesIn(password)) >= 3

\* C18: every password of generateSecurePassword(16, ...) and of
\* generateTestPasswords with the four classes enabled holds a capital, a
\* small letter, and characters of three of the four classes or more.
C18_GeneratedComposition ==
    /\ (input.op = "generateSecurePassword" /\ input.value.length = 16
        /\ Enabled(input.value.options) = OptionFields)
          => MeetsComposition(output.value.v)
    /\ (input.op = "generateTestPasswords"
        /\ Enabled(input.value.options) = OptionFields)
          => \A p \in 1..Len(output.value.v) : MeetsComposition(output.value.v[p].v)

RECURSIVE PlainFieldsKept(_, _)
\* every field of d under a key that is not sensitive is a field of e, with
\* the same value where the value is no object and no array
PlainFieldsKept(d, e) ==
    CASE d.t = "arr" ->
           /\ e.t = "arr" /\ Len(e.v) = Len(d.v)
           /\ \A i \in 1..Len(d.v) : PlainFieldsKept(d.v[i], e.v[i])
      [] d.t = "obj" ->
           /\ e.t = "obj"
           /\ \A k \in DOMAIN d.v :
                ~IsSensitive(k, d.v[k]) =>
                    /\ k \in DOMAIN e.v
                    /\ PlainFieldsKept(d.v[k], e.v[k])
      [] OTHER -> DeepEqual(d, e)

RECURSIVE WellFormedValue(_)
\* no surrogate of a string of the value stands alone
WellFormedValue(d) ==
    CASE d.t = "arr" -> \A i \in 1..Len(d.v) : WellFormedValue(d.v[i])
      [] d.t = "obj" -> \A k \in DOMAIN d.v : WellFormedValue(d.v[k])
      [] d.t = "str" -> WellFormed(d.v)
      [] OTHER -> TRUE

\* C10: decryptSensitiveFields returns a value deeply equal to the JSON value
\* that encryptSensitiveFields was given, and what encryptSensitiveFields
\* returned holds the fields under the keys that are not sensitive unchanged
\* (stated for the values in whose strings no surrogate stands alone, the
\* strings that encrypt and decrypt carry).
C10_WalkRoundTrip ==
    (input.op = "encryptSensitiveFields" /\ WellFormedValue(input.value)) =>
        /\ PlainFieldsKept(input.value, blob)
        /\ Called(output) => (output.ok /\ DeepEqual(output.value, input.value))

\* the keys that are sensitive: password, apikey, token, secret, key
SensitiveLowercased ==
    {Word.password, ToLowerCase(Word.apiKey), Word.token, Word.secret, Word.key}

\* a string under a key whose lowercased form is sensitive
Flagged(k, value) == ToLowerCase(k) \in SensitiveLowercased /\ value.t = "str"

\* e is <32 hex characters>:<hex characters> and decrypts under key to the
\* plaintext (to some string where a surrogate of the plaintext stands alone)
IsBlobOf(key, e, plaintext) ==
    /\ e.t = "str"
    /\ e.v # plaintext
    /\ With(Decrypt(key, e.v), LAMBDA r :
            r.ok /\ (WellFormed(plaintext) => r.value = plaintext))

RECURSIVE FlaggedEncrypted(_, _, _)
\* e is d with every flagged string replaced by a blob of it, at every depth,
\* and everything else as it is
FlaggedEncrypted(key, d, e) ==
    CASE d.t = "arr" ->
           /\ e.t = "arr" /\ Len(e.v) = Len(d.v)
           /\ \A i \in 1..Len(d.v) : FlaggedEncrypted(key, d.v[i], e.v[i])
      [] d.t = "obj" ->
           /\ e.t = "obj" /\ DOMAIN e.v = DOMAIN d.v
           /\ \A k \in DOMAIN d.v :
                IF Flagged(k, d.v[k])
                THEN IsBlobOf(key, e.v[k], d.v[k].v)
                ELSE FlaggedEncrypted(key, d.v[k], e.v[k])
      [] OTHER -> e = d

RECURSIVE FlaggedDecrypted(_, _, _)
\* out is e with every flagged string replaced by what decrypt makes of it
\* (kept where decrypt throws), at every depth, and everything else as it is
FlaggedDecrypted(key, e, out) ==
    CASE e.t = "arr" ->
           /\ out.t = "arr" /\ Len(out.v) = Len(e.v)
           /\ \A i \in 1..Len(e.v) : FlaggedDecrypted(key, e.v[i], out.v[i])
      [] e.t = "obj" ->
           /\ out.t = "obj" /\ DOMAIN out.v = DOMAIN e.v
           /\ \A k \in DOMAIN e.v :
                IF Flagged(k, e.v[k])
                THEN out.v[k] = DecryptOrKeep(Decrypt(key, e.v[k].v), e.v[k])
                ELSE FlaggedDecrypted(key, e.v[k], out.v[k])
      [] OTHER -> out = e

\* C11: encryptSensitiveFields replaces, at every depth, every string under a
\* key whose lowercased form is password, apikey, token, secret or key by an
\* encrypted blob and leaves every other key and value as it is, and
\* decryptSensitiveFields works on the same keys.
C11_SensitiveKeysExactly ==
    input.op = "encryptSensitiveFields" =>
        /\ FlaggedEncrypted(secretKey, input.value, blob)
        /\ Called(output) =>
              (output.ok /\ FlaggedDecrypted(secretKey, blob, output.value))

RECURSIVE FailuresKept(_, _, _)
\* out holds, for every string of d that the walk selects, the string itself
\* where decrypt throws on it and the decrypted string where it does not
FailuresKept(key, d, out) ==
    CASE d.t = "arr" ->
           /\ out.t = "arr" /\ Len(out.v) = Len(d.v)
           /\ \A i \in 1..Len(d.v) : FailuresKept(key, d.v[i], out.v[i])
      [] d.t = "obj" ->
           /\ out.t = "obj"
           /\ \A k \in DOMAIN d.v :
                IF IsSensitive(k, d.v[k])
                THEN /\ k \in DOMAIN out.v
                     /\ ~Decrypt(key, d.v[k].v).ok => out.v[k] = d.v[k]
                     /\ Decrypt(key, d.v[k].v).ok =>
                            out.v[k] = JStr(Decrypt(key, d.v[k].v).value)
                ELSE k \in DOMAIN out.v => FailuresKept(key, d.v[k], out.v[k])
      [] OTHER -> TRUE

\* C12: decryptSensitiveFields returns and throws nothing whatever the
\* selected strings hold; a selected string on which decrypt throws is in the
\* result as it was, and the selected strings beside it are decrypted.
C12_DecryptFailureKept ==
    (input.op \in {"decryptSensitiveFields", "encryptSensitiveFields"}
     /\ Called(output)) =>
        /\ output.ok
        /\ FailuresKept(secretKey, blob, output.value)

\* a record with a plaintext password and an encrypted token came back with
\* the password as it was and the token decrypted
C12_Witness ==
    /\ input.op = "decryptSensitiveFields"
    /\ secretKey = DefaultSecretKey
    /\ DOMAIN input.value.v = {Word.password, Word.token}
    /\ input.value.v[Word.password] = JStr(Word.testPassword)
    /\ ~Decrypt(secretKey, Word.testPassword).ok
    /\ output.ok
    /\ output.value.v[Word.password] = JStr(Word.testPassword)
    /\ output.value.v[Word.token] = JStr(Word.users)

\* C13 as amended: encryptCredentials returns an object with the fields of
\* the credentials in which the password, the apiKey and the token that are
\* not empty differ from their plaintexts and every other field is as it was
\* (an empty password, apiKey or token among them); decryptCredentials
\* returns from it every field in whose string no surrogate stands alone as
\* it was in the credentials; the credentials object stays as it was.
C13_CredentialRoundTrip ==
    /\ [](input.op = "encryptCredentials" =>
            /\ blob.t = "obj"
            /\ DOMAIN blob.v = DOMAIN input.value.v
            /\ \A k \in DOMAIN input.value.v :
                  IF k \in CredentialFields /\ input.value.v[k].v # <<>>
                  THEN blob.v[k] # input.value.v[k]
                  ELSE blob.v[k] = input.value.v[k]
            /\ Called(output) =>
                  /\ output.ok
                  /\ DOMAIN output.value.v = DOMAIN input.value.v
                  /\ \A k \in DOMAIN input.value.v :
                        WellFormed(input.value.v[k].v) =>
                            output.value.v[k] = input.value.v[k])
    /\ [][input.op = "encryptCredentials" => input' = input]_vars

\* the credentials of the test suite, scaled, have come back field by field
C13_Witness ==
    /\ input.op = "encryptCredentials"
    /\ DOMAIN input.value.v = CredentialKeys
    /\ \A k \in CredentialKeys : input.value.v[k] = JStr(Word.testPassword)
    /\ blob.v[Word.username] = JStr(Word.testPassword)
    /\ blob.v[Word.apiKey] # JStr(Word.testPassword)
    /\ output.ok
    /\ output.value = input.value

\* C13 as stated: for every credentials object with string fields the
\* password, the apiKey and the token become different from their
\* plaintexts, every other field stays, and decryptCredentials returns the
\* credentials field by field.
C13_EveryStringField ==
    input.op = "encryptCredentials" =>
        /\ \A k \in DOMAIN input.value.v :
              IF k \in CredentialFields
              THEN blob.v[k] # input.value.v[k]
              ELSE blob.v[k] = input.value.v[k]
        /\ Called(output) => (output.ok /\ output.value = input.value)

----------------------------------------------------------------------------
(* Properties of the tokens. *)

\* verifySecureToken returned null
IsNull(r) == r.ok /\ r.value.t = "null"

\* verifySecureToken returned a payload with this data
HasData(r, data) ==
    /\ r.ok
    /\ r.value.t = "obj"
    /\ Word.data \in DOMAIN r.value.v
    /\ r.value.v[Word.data].t = "str"
    /\ r.value.v[Word.data].v = data

\* C2: a token of createSecureToken verified under the same key gives its
\* data while the clock is before its expiry and null once the clock is past
\* it; with ttl -1 it gives null from its creation on, with ttl 60 it gives
\* its data at its creation.
C2_ValidityWindow ==
    (issued.kind = "created" /\ Called(verdict)) =>
        /\ clock < issued.expiry => HasData(verdict, issued.data)
        /\ clock > issued.expiry => IsNull(verdict)
        /\ issued.ttl = -1 => IsNull(verdict)
        /\ (issued.ttl = 60 /\ clock = issued.at) => HasData(verdict, issued.data)

\* a token with ttl 1 has given its data one millisecond before its expiry
C2_Witness ==
    /\ issued.kind = "created"
    /\ issued.ttl = 1
    /\ clock = issued.expiry - 1
    /\ HasData(verdict, issued.data)

\* C3: a token that verified and of which one character was changed, in the
\* signature or in the payload, verifies to null; a payload is returned only
\* for a token of two parts whose second part is the HMAC of the first under
\* the key of the verifier.
C3_TamperDetection ==
    /\ (issued.kind = "tampered" /\ Called(verdict)) => IsNull(verdict)
    /\ (Called(verdict) /\ verdict.ok /\ verdict.value.t # "null") =>
          LET parts == Split(token, Chr.dot)
          IN  Len(parts) = 2 /\ parts[2] = Sign(secretKey, parts[1])

\* the last character of the signature was changed and the token verified to
\* null
C3_Witness ==
    /\ issued.kind = "tampered"
    /\ issued.pos = Len(token)
    /\ IsNull(verdict)

\* C4: verifySecureToken throws nothing; for a string that is no token, for
\* a changed token, for a token signed with another key, for a signed
\* payload that is no JSON text and for an expired token it returns null;
\* and it leaves the cipher object and the token as they were.
C4_VerifyNeverThrows ==
    /\ [](Called(verdict) => verdict.ok)
    /\ []((/\ Called(verdict)
           /\ \/ issued.kind \in {"malformed", "tampered", "foreign", "garbled"}
              \/ issued.kind = "created" /\ clock > issued.expiry)
          => IsNull(verdict))
    /\ [][(~Called(verdict) /\ Called(verdict')) =>
              UNCHANGED <<secretKey, token, clock>>]_vars

\* a signed payload that is no JSON text was verified to null
C4_Witness ==
    /\ issued.kind = "garbled"
    /\ IsNull(verdict)

\* C19: verifySecureToken returns a payload only for a token whose expiry is
\* greater than the clock at the verification, so a token made with ttl 0 or
\* less verifies to null, at the instant of its creation too.
C19_StrictExpiry ==
    (issued.kind = "created" /\ Called(verdict)) =>
        /\ ~IsNull(verdict) => issued.expiry > clock
        /\ issued.ttl <= 0 => IsNull(verdict)

\* the payload that the token carries
PayloadOf(tokenText) ==
    JsonParse(Utf8Decode(Base64Decode(Split(tokenText, Chr.dot)[1]))).value

\* C20: the payload of every token of createSecureToken(data, ttl) has
\* expiry = timestamp + ttl * 60000, however the clock advances while the
\* token is made.
C20_ExpiryExact ==
    issued.kind \in {"created", "foreign"} =>
        With(PayloadOf(token), LAMBDA payload :
            /\ payload.t = "obj"
            /\ DOMAIN payload.v = {Word.data, Word.timestamp, Word.expiry}
            /\ payload.v[Word.expiry].v
                  = payload.v[Word.timestamp].v + (issued.ttl * 60000))

----------------------------------------------------------------------------
(* Properties of the cleanup cycle's dispatch and order. *)

\* the step is the start of a cleanup(strategy) call
StartsCycle(strategy) ==
    /\ ~Busy
    /\ EnterSubs(SubPlan(ResolveStrategy(strategy, cleanupStrategy)),
                 <<StartEvent(nextId, Len(cleanupHooks))>>)

\* C21: a cleanup('auto') call, which is what cleanup() is, runs at least one
\* of the database, api and file sub-cleanups before it invokes a hook,
\* whatever strategy the manager was constructed with, 'auto' included.
C21_AutoRunsSubCleanup ==
    [][StartsCycle("auto") => (Len(log') > 1 /\ log'[2].kind = "sub")]_vars


\* the sub-cleanup sequences a cleanup cycle may be made of
SelectedSubs ==
    {<<>>, <<"database">>, <<"api">>, <<"file">>, <<"database", "api", "file">>}

\* the step invokes a sub-cleanup, or a hook
InvokesSub == log' # log /\ log'[Len(log')].kind = "sub"

InvokesHook == log' # log /\ log'[Len(log')].kind = "hook"

\* the step takes an entity out of the registry
RemovesEntity ==
    \E t \in DOMAIN generatedData :
        ~IsPrefix(GetGeneratedData(generatedData, t), GetGeneratedData(generatedData', t))

\* C22: within one cleanup cycle the selected sub-cleanups run one after the
\* other, for 'all' in the order database, api, file; every one of them has
\* completed before the first hook is invoked; hook i+1 is invoked only in the
\* step in which hook i settles; and the registry is cleared only after the
\* hook loop has ended, the last invoked hook having settled.
C22_CycleOrder ==
    /\ [](Busy => /\ SubsRun(log) \o plan \in SelectedSubs
                  /\ HooksInvoked(log) = [i \in 1..Len(HooksInvoked(log)) |-> i]
                  /\ pc = "awaitSub" => HooksInvoked(log) = <<>>
                  /\ pc # "awaitSub" => plan = <<>>)
    /\ [][InvokesSub =>
            /\ HooksInvoked(log') = <<>>
            /\ (~Busy \/ (pc = "awaitSub" /\ pending # "reject"))]_vars
    /\ [][InvokesHook =>
            /\ plan = <<>> /\ plan' = <<>>
            /\ \/ ~Busy
               \/ pc = "awaitSub" /\ pending # "reject"
               \/ pc = "awaitHook" /\ hookIdx' = hookIdx + 1
            /\ pc = "awaitHook" <=> Len(HooksInvoked(log')) > 1]_vars
    /\ [][RemovesEntity =>
            /\ pc = "awaitHooksDone" /\ pc' = "resolved"
            /\ log' = log
            /\ Len(HooksInvoked(log)) = hookIdx - 1]_vars

\* a cleanup('all') call has resolved on a manager with two hooks and an entity
C22_Witness ==
    /\ pc = "resolved"
    /\ nextId > 1
    /\ SubsRun(log) = <<"database", "api", "file">>
    /\ HooksInvoked(log) = <<1, 2>>
    /\ RegistryEmpty(generatedData)


----------------------------------------------------------------------------
(* Further properties of the cipher. *)

\* C23: decrypt returns a string only for a blob exactly as encrypt produced
\* it under the key of the cipher, and then the string that was encrypted: a
\* blob whose IV or ciphertext was altered, or that was made under another
\* key, makes decrypt fail and never return another plaintext.  (Of the
\* strings received, encrypt has produced the sample blob alone, from
\* 'TestPassword123!' under the default key.)
C23_AuthenticatedDecrypt ==
    (input.op = "decrypt" /\ Called(output) /\ output.ok)
        => /\ secretKey = DefaultSecretKey
           /\ blob.v = SampleBlob
           /\ output.value.v = Word.testPassword

\* the hexadecimal characters in lower case
LowerHexCharacters == (48..57) \cup (97..102)

\* C24: the key of a cipher object is, for every configured passphrase or
\* key string, a string of 64 lowercase hexadecimal characters (32 bytes),
\* fixed when the object is constructed: no operation on the object changes
\* it.
C24_KeyCanonicalLowercase ==
    /\ [](/\ Len(secretKey) = 64
          /\ \A i \in 1..Len(secretKey) : secretKey[i] \in LowerHexCharacters)
    /\ [][input'.op # "new" => secretKey' = secretKey]_vars


----------------------------------------------------------------------------
(* Further properties of the walk. *)

RECURSIVE EncryptedAtMostOnce(_, _)
\* no selected string of d decrypts under the key to a string that decrypts
\* under the key again
EncryptedAtMostOnce(key, d) ==
    CASE d.t = "arr" -> \A i \in 1..Len(d.v) : EncryptedAtMostOnce(key, d.v[i])
      [] d.t = "obj" ->
           \A k \in DOMAIN d.v :
              IF IsSensitive(k, d.v[k])
              THEN Decrypt(key, d.v[k].v).ok
                      => ~Decrypt(key, Decrypt(key, d.v[k].v).value).ok
              ELSE EncryptedAtMostOnce(key, d.v[k])
      [] OTHER -> TRUE

\* C25 as amended: decryptSensitiveFields(decryptSensitiveFields(d)) is deeply
\* equal to decryptSensitiveFields(d) for every JSON value d whose selected
\* strings are any mix of plain strings and blobs, as long as no selected
\* string decrypts to a string that decrypts again under the key.
C25_DecryptIdempotent ==
    (input.op = "decryptSensitiveFieldsAgain"
     /\ EncryptedAtMostOnce(secretKey, input.value))
        => (output.ok /\ output.value = blob)

\* the second call was given a record whose password had been decrypted by
\* the first and whose token had been kept, and returned it as it was
C25_Witness ==
    /\ input.op = "decryptSensitiveFieldsAgain"
    /\ input.value.t = "obj"
    /\ DOMAIN input.value.v = {Word.password, Word.token}
    /\ input.value.v[Word.password]
          = JStr(Encrypt(DefaultSecretKey, Word.users, IvOf(0)).value)
    /\ input.value.v[Word.token] = JStr(Word.testPassword)
    /\ blob.v[Word.password] = JStr(Word.users)
    /\ output.value = blob

\* C25 as stated: decryptSensitiveFields is idempotent on every JSON value
\* whose selected strings are any mix of encrypted blobs and plain strings.
C25_IdempotentOnEveryMix ==
    input.op = "decryptSensitiveFieldsAgain" => (output.ok /\ output.value = blob)


----------------------------------------------------------------------------
(* Further properties of the generator. *)

\* C26: generateSecurePassword called with every character class disabled,
\* which is what the CLI's 'generate <length>' without a class option does,
\* fails with a validation error: it returns no password, the empty string
\* included.
C26_EmptyCharsetFails ==
    (input.op = "generateSecurePassword" /\ Called(output)
     /\ Enabled(input.value.options) = {})
        => ~output.ok


----------------------------------------------------------------------------
(* Properties of the cleanup cycle under calls made while it is suspended. *)

\* the entry into cleanup() of the cycle in flight
CycleStart == log[1]

\* C27: an entity leaves the registry only through a cleanup cycle that
\* started after the entity was generated: an entity generated while a
\* cleanup() call is suspended at an await is still in the registry when that
\* call completes.
C27_ClearedOnlyIfGeneratedBefore ==
    [][\A t \in DOMAIN generatedData :
          \A id \in IdsOf(generatedData, t) \ IdsOf(generatedData', t) :
              /\ Busy
              /\ id < CycleStart.idx]_vars


\* C28: a cleanup cycle invokes exactly the hooks that were registered when
\* the cycle started: a hook registered while the cycle runs, by a running
\* hook for instance, is not invoked before the next cycle, and a cycle that
\* resolves has invoked each hook of its start once, in registration order.
C28_HooksOfCycleStart ==
    /\ [][InvokesHook => log'[Len(log')].idx <= log'[1].hooks]_vars
    /\ [][(Settles /\ pc' = "resolved") =>
            HooksInvoked(log') = [i \in 1..CycleStart.hooks |-> i]]_vars


----------------------------------------------------------------------------
(* Further properties of the tokens. *)

\* C29: under a clock that does not go back, verification of one token is
\* monotone in time: once verifySecureToken has returned null for the token,
\* it returns null at every later verification, and as long as it returns a
\* payload it returns the same payload.
C29_VerificationMonotone ==
    [][(Called(verdict) /\ Called(verdict') /\ token' = token) =>
          /\ clock' >= clock
          /\ verdict'.ok
          /\ IsNull(verdict) => IsNull(verdict')
          /\ ~IsNull(verdict') => verdict' = verdict]_vars

\* a token of createSecureToken that had verified to its payload was verified
\* again after its expiry, to null
C29_Witness ==
    /\ issued.kind = "created"
    /\ input.op = "verifySecureTokenAgain"
    /\ input.value = JBool(FALSE)
    /\ clock > issued.expiry
    /\ IsNull(verdict)


----------------------------------------------------------------------------
(* Properties of the statistics under the generators. *)

\* the type labels whose count of getDataStatistics() the step changes
LabelsChanged ==
    {t \in DOMAIN generatedData \cup DOMAIN generatedData' :
        Len(GetGeneratedData(generatedData', t)) # Len(GetGeneratedData(generatedData, t))}

\* what the step adds to getDataStatistics().totalGenerated
TotalAdded ==
    GetDataStatistics(generatedData').totalGenerated
        - GetDataStatistics(generatedData).totalGenerated

\* the step is a generateApiData(endpoint) call
IsGenerateApiData(endpoint) ==
    /\ ret' # ret
    /\ ret'.op = "generateApiData"
    /\ generatedData' = GenerateApiData(generatedData, nextId, endpoint).reg

\* the type labels a generateApiData(endpoint) call registers under
ApiLabels(endpoint) ==
    {"api"} \cup (IF "/users" \in endpoint THEN {"user"}
                  ELSE IF "/products" \in endpoint THEN {"product"}
                  ELSE IF "/orders" \in endpoint THEN {"order"}
                  ELSE {})

\* C30 as amended: a single generateUser, generateProduct or generateOrder
\* call adds exactly 1 to totalGenerated and changes the count of its own
\* type label alone; a generateApiData(endpoint) call does the same under
\* 'api' for an endpoint that includes none of '/users', '/products' and
\* '/orders', and otherwise adds 2: one under 'api' and one under the label
\* of the user, product or order it generates for the endpoint.
C30_StatisticsPerCall ==
    /\ [][(ret' # ret /\ ret'.op \in GenerateOps \ {"generateApiData"}) =>
            /\ TotalAdded = 1
            /\ LabelsChanged = {TypeLabel(ret'.op)}]_vars
    /\ [][\A endpoint \in Endpoints :
            IsGenerateApiData(endpoint) =>
                /\ LabelsChanged = ApiLabels(endpoint)
                /\ TotalAdded = Cardinality(ApiLabels(endpoint))
                /\ \A t \in LabelsChanged :
                      Len(GetGeneratedData(generatedData', t))
                         = Len(GetGeneratedData(generatedData, t)) + 1]_vars

\* generateApiData on a '/users' endpoint has left a user and an api entity
\* in the registry of a manager that held nothing
C30_Witness ==
    /\ ret.op = "generateApiData"
    /\ DOMAIN generatedData = {"user", "api"}
    /\ Len(generatedData["user"]) = 1
    /\ generatedData["api"] = <<ret.value>>
    /\ ret.value.data = generatedData["user"][1].id
    /\ GetDataStatistics(generatedData).totalGenerated = 2

\* C30 as stated: each single call of generateUser, generateProduct,
\* generateOrder and generateApiData(endpoint) adds exactly 1 to
\* totalGenerated and changes the count of exactly one type label.
C30_OneEntityPerCall ==
    [][(ret' # ret /\ ret'.op \in GenerateOps) =>
          /\ TotalAdded = 1
          /\ Cardinality(LabelsChanged) = 1]_vars


====
